---- MODULE Spec2Model ----
(***************************************************************************)
(* State-machine model of the koalanlp data module (src/src/data.ts):      *)
(* Morpheme, Word, Tree/SyntaxTree, DAGEdge/DepEdge/RoleEdge, Entity,      *)
(* CoreferenceGroup and Sentence, with their write-once back-references    *)
(* and the Sentence reconstruction from a native analyzer result.          *)
(*                                                                         *)
(* Objects live in per-class pools (sequences of records); an object's     *)
(* identity is its class name and its index in the pool.  A constructor    *)
(* that throws after `this` has escaped into a back-reference leaves its   *)
(* half-built object in the pool with ok = FALSE.                          *)
(***************************************************************************)
EXTENDS Integers, Sequences, FiniteSets, TLC

VARIABLES morphs, words, trees, deps, roles, ents, groups, sents, arrays, lists,
          last, assigns, jvm

vars ==
  <<morphs, words, trees, deps, roles, ents, groups, sents, arrays, lists, last,
    assigns, jvm>>

heapvars ==
  <<morphs, words, trees, deps, roles, ents, groups, sents, arrays, lists>>

----------------------------------------------------------------------------
(* Bounds of the object pools and of the inputs.                           *)

MaxMorphs == 2
MaxWords == 2
MaxTrees == 3
MaxDeps == 2
MaxRoles == 2
MaxEnts == 2
MaxGroups == 2
MaxSents == 1
MaxItems == 2
MaxAssigns == 2
MaxNativeWords == 2
MaxOthers == 1

MaxArrays == 2

MaxLists == 2

MaxTags == 3

MaxArgs == 2

MaxSentences == 2

MaxHandles == 3
MaxPackages == 3

----------------------------------------------------------------------------
(* JavaScript values: a type name as typeCheck computes it (typeof, or the *)
(* constructor name of an object), an index or number, a string payload.   *)

Undef == [t |-> "undefined", n |-> 0, s |-> ""]

Null == [t |-> "null", n |-> 0, s |-> ""]

Num(k) == [t |-> "number", n |-> k, s |-> ""]

Str(x) == [t |-> "string", n |-> 0, s |-> x]

Bool(b) == [t |-> "boolean", n |-> IF b THEN 1 ELSE 0, s |-> ""]

Ref(cls, i) == [t |-> cls, n |-> i, s |-> ""]

isDefined(value) == value # Undef /\ value # Null

\* typeCheck passes iff the type name of every value is one of `types`;
\* a null value has typeof 'object' and no constructor, which throws too.
typeCheck(values, types) ==
  \A i \in DOMAIN values : values[i] # Null /\ values[i].t \in types

----------------------------------------------------------------------------
(* writeonlyonce: the closure variable `value` is the raw stored value.    *)

writeonlyonce_get(value, defValue) ==
  IF ~isDefined(value) THEN defValue ELSE value

writeonlyonce_set_overwrite(value, newValue) ==
  [value |-> newValue, err |-> FALSE]

writeonlyonce_set(value, newValue) ==
  IF value = newValue THEN [value |-> value, err |-> FALSE]
  ELSE IF isDefined(value) THEN [value |-> value, err |-> TRUE]
  ELSE [value |-> newValue, err |-> FALSE]

----------------------------------------------------------------------------
(* The heap as one record, so that constructors compose as operators.      *)

Heap ==
  [morphs |-> morphs, words |-> words, trees |-> trees, deps |-> deps,
   roles |-> roles, ents |-> ents, groups |-> groups, sents |-> sents,
   arrays |-> arrays, lists |-> lists, err |-> FALSE, ret |-> Undef]

Throw(h) == [h EXCEPT !.err = TRUE, !.ret = Undef]

----------------------------------------------------------------------------
(* Morpheme                                                                *)

Morpheme_new(h, surface, tag) ==
  IF ~typeCheck(<<surface>>, {"string"}) \/ ~typeCheck(<<tag>>, {"string", "POS"})
  THEN Throw(h)
  ELSE [h EXCEPT
          !.morphs = Append(@, [surface |-> surface, tag |-> tag,
                                word |-> Undef, id |-> Undef,
                                wordSense |-> Undef, entities |-> <<>>]),
          !.ret = Ref("Morpheme", Len(h.morphs) + 1)]

getOrUndefined(value) == IF isDefined(value) THEN value ELSE Undef

\* morpheme.wordSense = newValue.  The constructor makes 'word' and
\* 'wordsense' write-once, so 'wordSense' is an ordinary property.
Morpheme_setWordSense(h, m, newValue) ==
  [h EXCEPT !.morphs[m].wordSense = newValue]

\* new Morpheme({surface, tag, reference}) for a native morpheme whose
\* getWordSense() answers sense
Morpheme_newFrom(h, surface, tag, sense) ==
  LET h1 == Morpheme_new(h, surface, tag)
  IN IF h1.err THEN h1
     ELSE [Morpheme_setWordSense(h1, h1.ret.n, getOrUndefined(sense)) EXCEPT
             !.ret = h1.ret]

Morpheme_id(h, m) == writeonlyonce_get(h.morphs[m].id, Num(-1))

Morpheme_word(h, m) == writeonlyonce_get(h.morphs[m].word, Undef)

----------------------------------------------------------------------------
(* Word                                                                    *)

RECURSIVE Word_wire_from1(_, _, _)
\* as Word_wire, numbering the morphemes from 1
Word_wire_from1(h, w, i) ==
  IF h.err \/ i > Len(h.words[w].items) THEN h
  ELSE LET m == h.words[w].items[i].n
           sw == writeonlyonce_set(h.morphs[m].word, Ref("Word", w))
       IN IF sw.err THEN Throw(h)
          ELSE LET h1 == [h EXCEPT !.morphs[m].word = sw.value]
                   si == writeonlyonce_set(h1.morphs[m].id, Num(i))
               IN IF si.err THEN Throw(h1)
                  ELSE Word_wire_from1([h1 EXCEPT !.morphs[m].id = si.value], w, i + 1)

RECURSIVE Word_wire(_, _, _)
\* for (const [i, morph] of this.entries()) { morph.word = this; morph.id = i; }
Word_wire(h, w, i) ==
  IF h.err \/ i > Len(h.words[w].items) THEN h
  ELSE LET m == h.words[w].items[i].n
           sw == writeonlyonce_set(h.morphs[m].word, Ref("Word", w))
       IN IF sw.err THEN Throw(h)
          ELSE LET h1 == [h EXCEPT !.morphs[m].word = sw.value]
                   si == writeonlyonce_set(h1.morphs[m].id, Num(i - 1))
               IN IF si.err THEN Throw(h1)
                  ELSE Word_wire([h1 EXCEPT !.morphs[m].id = si.value], w, i + 1)

\* as Word_new, checking the surface after the morphemes are wired
Word_new_lateCheck(h, surface, morphemes) ==
  IF ~typeCheck(morphemes, {"Morpheme"}) THEN Throw(h)
  ELSE LET w == Len(h.words) + 1
           h1 == [h EXCEPT
                    !.words = Append(@, [surface |-> surface, items |-> morphemes,
                                         id |-> Undef, phrase |-> Undef,
                                         governorEdge |-> Undef,
                                         dependentEdges |-> <<>>,
                                         argumentRoles |-> <<>>,
                                         predicateRoles |-> <<>>,
                                         ok |-> FALSE])]
           h2 == Word_wire(h1, w, 1)
       IN IF h2.err \/ ~typeCheck(<<surface>>, {"string"})
          THEN [h2 EXCEPT !.err = TRUE, !.ret = Undef]
          ELSE [h2 EXCEPT !.words[w].ok = TRUE, !.ret = Ref("Word", w)]

Word_new(h, surface, morphemes) ==
  IF ~typeCheck(morphemes, {"Morpheme"}) \/ ~typeCheck(<<surface>>, {"string"})
  THEN Throw(h)
  ELSE LET w == Len(h.words) + 1
           h1 == [h EXCEPT
                    !.words = Append(@, [surface |-> surface, items |-> morphemes,
                                         id |-> Undef, phrase |-> Undef,
                                         governorEdge |-> Undef,
                                         dependentEdges |-> <<>>,
                                         argumentRoles |-> <<>>,
                                         predicateRoles |-> <<>>,
                                         ok |-> FALSE])]
           h2 == Word_wire(h1, w, 1)
       IN IF h2.err
          THEN IF h2.morphs = h.morphs THEN Throw(h) ELSE h2
          ELSE [h2 EXCEPT !.words[w].ok = TRUE, !.ret = Ref("Word", w)]

Word_id(h, w) == writeonlyonce_get(h.words[w].id, Num(-1))

Word_phrase(h, w) == writeonlyonce_get(h.words[w].phrase, Undef)

Word_governorEdge(h, w) == writeonlyonce_get(h.words[w].governorEdge, Undef)

RECURSIVE AppendNew(_, _)
\* appends the elements of xs that acc does not include yet
AppendNew(acc, xs) ==
  IF xs = <<>> THEN acc
  ELSE AppendNew(IF \E k \in DOMAIN acc : acc[k] = Head(xs)
                 THEN acc ELSE Append(acc, Head(xs)), Tail(xs))

RECURSIVE Word_entities_from_nodedup(_, _, _, _)
\* as Word_entities_from, without the includes() test
Word_entities_from_nodedup(h, w, i, result) ==
  IF i > Len(h.words[w].items) THEN result
  ELSE Word_entities_from_nodedup(h, w, i + 1,
         result \o h.morphs[h.words[w].items[i].n].entities)

RECURSIVE Word_entities_from(_, _, _, _)
Word_entities_from(h, w, i, result) ==
  IF i > Len(h.words[w].items) THEN result
  ELSE Word_entities_from(h, w, i + 1,
         AppendNew(result, h.morphs[h.words[w].items[i].n].entities))

Word_entities(h, w) == Word_entities_from(h, w, 1, <<>>)

----------------------------------------------------------------------------
(* Entity and CoreferenceGroup                                             *)

RECURSIVE Entity_wire(_, _, _)
\* for (const morph of this) morph.entities.push(this);
Entity_wire(h, e, i) ==
  IF i > Len(h.ents[e].items) THEN h
  ELSE Entity_wire(
         [h EXCEPT !.morphs[h.ents[e].items[i].n].entities =
                      Append(@, Ref("Entity", e))], e, i + 1)

Entity_new(h, surface, label, fineLabel, morphemes) ==
  IF \/ ~typeCheck(morphemes, {"Morpheme"})
     \/ ~typeCheck(<<surface, fineLabel>>, {"string"})
     \/ ~typeCheck(<<label>>, {"string", "CoarseEntityType"})
  THEN Throw(h)
  ELSE LET e == Len(h.ents) + 1
           h1 == [h EXCEPT
                    !.ents = Append(@, [surface |-> surface, label |-> label.s,
                                        fineLabel |-> fineLabel,
                                        items |-> morphemes,
                                        corefGroup |-> Undef, ok |-> TRUE])]
       IN [Entity_wire(h1, e, 1) EXCEPT !.ret = Ref("Entity", e)]

Entity_corefGroup(h, e) == writeonlyonce_get(h.ents[e].corefGroup, Undef)

RECURSIVE CoreferenceGroup_wire_overwrite(_, _, _)
\* as CoreferenceGroup_wire, with a corefGroup that may be reassigned
CoreferenceGroup_wire_overwrite(h, g, i) ==
  IF i > Len(h.groups[g].items) THEN h
  ELSE CoreferenceGroup_wire_overwrite(
         [h EXCEPT !.ents[h.groups[g].items[i].n].corefGroup =
                      Ref("CoreferenceGroup", g)], g, i + 1)

RECURSIVE CoreferenceGroup_wire(_, _, _)
\* for (const entity of this) entity.corefGroup = this;
CoreferenceGroup_wire(h, g, i) ==
  IF i > Len(h.groups[g].items) THEN h
  ELSE LET e == h.groups[g].items[i].n
           s == writeonlyonce_set(h.ents[e].corefGroup, Ref("CoreferenceGroup", g))
       IN IF s.err THEN Throw(h)
          ELSE CoreferenceGroup_wire([h EXCEPT !.ents[e].corefGroup = s.value], g, i + 1)

CoreferenceGroup_new(h, entities) ==
  IF ~typeCheck(entities, {"Entity"}) THEN Throw(h)
  ELSE LET g == Len(h.groups) + 1
           h1 == [h EXCEPT !.groups = Append(@, [items |-> entities, ok |-> FALSE])]
           h2 == CoreferenceGroup_wire(h1, g, 1)
       IN IF h2.err
          THEN IF h2.ents = h.ents THEN Throw(h) ELSE h2
          ELSE [h2 EXCEPT !.groups[g].ok = TRUE,
                          !.ret = Ref("CoreferenceGroup", g)]

----------------------------------------------------------------------------
(* ImmutableArray: index access through the proxy (0-based, negative from  *)
(* the end, undefined when out of range).                                  *)

ImmutableArray_get(items, name) ==
  IF name >= 0
  THEN IF name < Len(items) THEN items[name + 1] ELSE Undef
  ELSE IF Len(items) + name >= 0 THEN items[Len(items) + name + 1] ELSE Undef

----------------------------------------------------------------------------
(* Tree / SyntaxTree.  `children` is [given |-> BOOLEAN, items |-> Seq]:   *)
(* given = FALSE is a value object without a children property.           *)

RECURSIVE SyntaxTree_wire(_, _, _)
\* for (const child of this) child.parent = this;
SyntaxTree_wire(h, t, i) ==
  IF i > Len(h.trees[t].items) THEN h
  ELSE LET c == h.trees[t].items[i].n
           s == writeonlyonce_set(h.trees[c].parent, Ref("SyntaxTree", t))
       IN IF s.err THEN Throw(h)
          ELSE SyntaxTree_wire([h EXCEPT !.trees[c].parent = s.value], t, i + 1)

SyntaxTree_new(h, label, terminal, children) ==
  IF \/ ~children.given                                     \* typeCheck(undefined)
     \/ ~typeCheck(children.items, {"SyntaxTree", "Tree"})
     \/ ~typeCheck(<<label>>, {"string"})                   \* Tree constructor
     \/ ~typeCheck(<<terminal>>, {"undefined", "Word"})
     \/ ~typeCheck(<<label>>, {"string", "PhraseTag"})      \* SyntaxTree constructor
  THEN Throw(h)
  ELSE LET t == Len(h.trees) + 1
           h1 == [h EXCEPT
                    !.trees = Append(@, [label |-> label, terminal |-> terminal,
                                         items |-> children.items,
                                         parent |-> Undef, ok |-> FALSE])]
           sp == IF terminal # Undef
                 THEN writeonlyonce_set(h.words[terminal.n].phrase, Ref("SyntaxTree", t))
                 ELSE [value |-> Undef, err |-> FALSE]
       IN IF sp.err THEN Throw(h)
          ELSE LET h2 == IF terminal # Undef
                         THEN [h1 EXCEPT !.words[terminal.n].phrase = sp.value]
                         ELSE h1
                   h3 == SyntaxTree_wire(h2, t, 1)
               IN IF h3.err
                  THEN IF h3.trees = h1.trees /\ h3.words = h.words THEN Throw(h) ELSE h3
                  ELSE [h3 EXCEPT !.trees[t].ok = TRUE, !.ret = Ref("SyntaxTree", t)]

Tree_parent(h, t) == writeonlyonce_get(h.trees[t].parent, Undef)

Tree_length(h, t) == Len(h.trees[t].items)

Tree_hasNonTerminals(h, t) == Tree_length(h, t) > 0

RECURSIVE sortInsert(_, _, _)
\* puts x behind the last element whose id is not greater (a stable sort)
sortInsert(h, sorted, x) ==
  IF sorted = <<>> THEN <<x>>
  ELSE IF Word_id(h, Head(sorted).n).n - Word_id(h, x.n).n <= 0
       THEN <<Head(sorted)>> \o sortInsert(h, Tail(sorted), x)
       ELSE <<x>> \o sorted

\* as sortById, leaving the order as it is
sortById_unsorted(h, leaves) == leaves

RECURSIVE sortById(_, _)
\* leaves.sort((x, y) => x.id - y.id)
sortById(h, leaves) ==
  IF leaves = <<>> THEN <<>>
  ELSE sortInsert(h, sortById(h, SubSeq(leaves, 1, Len(leaves) - 1)),
                  leaves[Len(leaves)])

RECURSIVE Tree_getTerminals(_, _)
RECURSIVE Tree_reduceTerminals(_, _, _, _)
Tree_reduceTerminals(h, t, i, acc) ==
  IF i > Len(h.trees[t].items) THEN acc
  ELSE Tree_reduceTerminals(h, t, i + 1,
         acc \o Tree_getTerminals(h, h.trees[t].items[i].n))

Tree_getTerminals(h, t) ==
  LET leaves == Tree_reduceTerminals(h, t, 1, <<>>)
      all == IF h.trees[t].terminal # Undef
             THEN Append(leaves, h.trees[t].terminal) ELSE leaves
  IN sortById(h, all)

----------------------------------------------------------------------------
(* DAGEdge / DepEdge / RoleEdge.  The value object of a DepEdge may carry  *)
(* src and dest besides governor and dependent.                            *)

DAGEdge_check(value) ==
  /\ typeCheck(<<value.src>>, {"undefined", "Word"})
  /\ typeCheck(<<value.dest>>, {"Word"})
  /\ typeCheck(<<value.label>>, {"undefined", "string"})

DepEdge_new(h, value) ==
  IF \/ ~DAGEdge_check(value)      \* super(value) runs before src/dest are set
     \/ ~typeCheck(<<value.type>>, {"string", "PhraseTag"})
     \/ ~typeCheck(<<value.depType>>, {"undefined", "string", "DependencyTag"})
  THEN Throw(h)
  ELSE LET d == Len(h.deps) + 1
           s == writeonlyonce_set(h.words[value.dest.n].governorEdge, Ref("DepEdge", d))
       IN IF s.err THEN Throw(h)
          ELSE LET h1 == [h EXCEPT
                            !.deps = Append(@, [src |-> value.src, dest |-> value.dest,
                                                label |-> value.label,
                                                type |-> value.type, ok |-> TRUE]),
                            !.words[value.dest.n].governorEdge = s.value]
                   h2 == IF isDefined(value.src)
                         THEN [h1 EXCEPT !.words[value.src.n].dependentEdges =
                                            Append(@, Ref("DepEdge", d))]
                         ELSE h1
               IN [h2 EXCEPT !.ret = Ref("DepEdge", d)]

\* as RoleEdge_new, registering the edge on the predicate only
RoleEdge_new_srcOnly(h, value) ==
  IF \/ ~typeCheck(<<value.label>>, {"string", "RoleType"})
     \/ ~typeCheck(value.modifiers, {"Word"})
     \/ ~isDefined(value.predicate)
     \/ ~DAGEdge_check([src |-> value.predicate, dest |-> value.argument,
                        label |-> Str(value.label.s)])
  THEN Throw(h)
  ELSE LET r == Len(h.roles) + 1
           h1 == [h EXCEPT
                    !.roles = Append(@, [src |-> value.predicate,
                                         dest |-> value.argument,
                                         label |-> value.label.s,
                                         modifiers |-> value.modifiers, ok |-> TRUE]),
                    !.words[value.predicate.n].argumentRoles =
                       Append(@, Ref("RoleEdge", r))]
       IN [h1 EXCEPT !.ret = Ref("RoleEdge", r)]

RoleEdge_new(h, value) ==
  IF \/ ~typeCheck(<<value.label>>, {"string", "RoleType"})
     \/ ~typeCheck(value.modifiers, {"Word"})
     \/ ~isDefined(value.predicate)
     \/ ~DAGEdge_check([src |-> value.predicate, dest |-> value.argument,
                        label |-> Str(value.label.s)])
  THEN Throw(h)
  ELSE LET r == Len(h.roles) + 1
           h1 == [h EXCEPT
                    !.roles = Append(@, [src |-> value.predicate,
                                         dest |-> value.argument,
                                         label |-> value.label.s,
                                         modifiers |-> value.modifiers, ok |-> TRUE]),
                    !.words[value.argument.n].predicateRoles =
                       Append(@, Ref("RoleEdge", r))]
           h2 == [h1 EXCEPT !.words[value.predicate.n].argumentRoles =
                               Append(@, Ref("RoleEdge", r))]
       IN [h2 EXCEPT !.ret = Ref("RoleEdge", r)]

----------------------------------------------------------------------------
(* replaceableifempty                                                      *)

(* Plain JavaScript arrays live in the pool `arrays`; frozen is what       *)
(* Object.freeze leaves, and `by` names the code that created the array.   *)
(* The closure variable `value` of a property is a reference to one.       *)

Array_new(h, items, by) ==
  [h EXCEPT !.arrays = Append(@, [items |-> items, frozen |-> FALSE, by |-> by]),
            !.ret = Ref("Array", Len(h.arrays) + 1)]

\* Object.freeze(x): an array becomes frozen, undefined and null are
\* returned as they are
Object_freeze(arrs, x) ==
  IF isDefined(x) THEN [arrs EXCEPT ![x.n].frozen = TRUE] ELSE arrs

\* as replaceableifempty_set, storing the new list without freezing it
replaceableifempty_set_nofreeze(arrs, value, newValue) ==
  IF value = newValue THEN [arrays |-> arrs, value |-> value, err |-> FALSE]
  ELSE IF ~isDefined(value) \/ Len(arrs[value.n].items) > 0
       THEN [arrays |-> arrs, value |-> value, err |-> TRUE]
       ELSE [arrays |-> arrs, value |-> newValue, err |-> FALSE]

\* the setter; value.length of a held undefined or null throws as well
replaceableifempty_set(arrs, value, newValue) ==
  IF value = newValue THEN [arrays |-> arrs, value |-> value, err |-> FALSE]
  ELSE IF ~isDefined(value) \/ Len(arrs[value.n].items) > 0
       THEN [arrays |-> arrs, value |-> value, err |-> TRUE]
       ELSE [arrays |-> Object_freeze(arrs, newValue),
             value |-> newValue, err |-> FALSE]

----------------------------------------------------------------------------
(* Sentence, built directly from a Word list.                              *)

RECURSIVE Sentence_wire(_, _, _)
\* for (const [i, word] of this.entries()) word.id = i;
Sentence_wire(h, items, i) ==
  IF i > Len(items) THEN h
  ELSE LET s == writeonlyonce_set(h.words[items[i].n].id, Num(i - 1))
       IN IF s.err THEN Throw(h)
          ELSE Sentence_wire([h EXCEPT !.words[items[i].n].id = s.value], items, i + 1)

\* the Sentence after replaceableifempty(this, ...): each of the four
\* properties holds an empty frozen array of its own
Sentence_record(h, items, recon) ==
  [h EXCEPT
     !.arrays = @ \o [k \in 1..4 |-> [items |-> <<>>, frozen |-> TRUE,
                                       by |-> "replaceableifempty"]],
     !.sents = Append(@, [items |-> items, syntaxTree |-> Undef,
                          dependencies |-> Ref("Array", Len(h.arrays) + 1),
                          roles |-> Ref("Array", Len(h.arrays) + 2),
                          entities |-> Ref("Array", Len(h.arrays) + 3),
                          corefGroups |-> Ref("Array", Len(h.arrays) + 4),
                          recon |-> recon, ok |-> TRUE])]

\* sentence[name] = newValue for one of the four properties
Sentence_setList(h, s, name, newValue) ==
  LET set == replaceableifempty_set(h.arrays, h.sents[s][name], newValue)
  IN [h EXCEPT !.arrays = set.arrays, !.sents[s][name] = set.value,
               !.err = set.err]

\* what sentence[name] reads: the elements of the array it holds
Sentence_list(h, s, name) ==
  IF isDefined(h.sents[s][name]) THEN h.arrays[h.sents[s][name].n].items
  ELSE <<>>

\* sentence.syntaxTree = newValue.  A reconstructed Sentence has the
\* write-once accessor; for a Sentence built from a Word list the call
\* writeonlyonce(this, 'syntaxTree') names no property, so the assignment
\* is an ordinary store.
Sentence_setSyntaxTree(h, s, newValue) ==
  IF h.sents[s].recon
  THEN LET set == writeonlyonce_set(h.sents[s].syntaxTree, newValue)
       IN [h EXCEPT !.sents[s].syntaxTree = set.value, !.err = set.err]
  ELSE [h EXCEPT !.sents[s].syntaxTree = newValue]

\* array.push(x), array.pop() and array[0] = x of a caller.  On a frozen
\* array push and pop throw; the indexed store throws in strict code and is
\* dropped in sloppy code.
Array_mutate(h, a, method, x, strict) ==
  LET arr == h.arrays[a] IN
  IF arr.frozen
  THEN [h EXCEPT !.err = (method # "set") \/ strict]
  ELSE CASE method = "push" -> [h EXCEPT !.arrays[a].items = Append(@, x)]
         [] method = "pop" ->
              [h EXCEPT !.arrays[a].items = SubSeq(@, 1, Len(@) - 1)]
         [] method = "set" ->
              [h EXCEPT !.arrays[a].items =
                          IF @ = <<>> THEN <<x>> ELSE [@ EXCEPT ![1] = x]]

Sentence_new(h, value) ==
  IF ~typeCheck(value, {"Word"}) THEN Throw(h)
  ELSE LET h1 == Sentence_wire(h, value, 1)
       IN IF h1.err THEN h1
          ELSE [Sentence_record(h1, value, FALSE) EXCEPT
                  !.ret = Ref("Sentence", Len(h.sents) + 1)]

----------------------------------------------------------------------------
(* Sentence.nouns and Sentence.modifiers.  A tag is its name; the category *)
(* predicates of POS are those of the tag table, and since no tag name is  *)
(* longer than the three letters of ETN, ETM, XSN, XSV, XSA and XSM,       *)
(* hasTagOneOf with these names is membership.                             *)

NounTags == {"NNG", "NNP", "NNB", "NNM", "NR", "NP"}

PredicateTags == {"VV", "VA", "VX", "VCP", "VCN"}

ModifierTags == {"MM", "MAG", "MAJ"}

\* the tag names of the morphemes of word w, in order
Word_tags(h, w) ==
  [k \in DOMAIN h.words[w].items |-> h.morphs[h.words[w].items[k].n].tag.s]

\* findIndex: the least 0-based index of a tag in S, or -1
Tags_findIndex(tags, S) ==
  IF \E k \in DOMAIN tags : tags[k] \in S
  THEN (CHOOSE k \in DOMAIN tags :
          tags[k] \in S /\ \A j \in 1..(k - 1) : tags[j] \notin S) - 1
  ELSE -1

\* findLastIndex: the greatest 0-based index of a tag in S, or -1
Tags_findLastIndex(tags, S) ==
  IF \E k \in DOMAIN tags : tags[k] \in S
  THEN (CHOOSE k \in DOMAIN tags :
          tags[k] \in S /\ \A j \in (k + 1)..Len(tags) : tags[j] \notin S) - 1
  ELSE -1

\* the loop shared by the getters: the words whose first morpheme in
\* `include` lies after their last morpheme in `exclude`
Sentence_select(h, s, include, exclude) ==
  LET Keep(word) ==
        LET inclusion == Tags_findIndex(Word_tags(h, word.n), include)
            exclusion == Tags_findLastIndex(Word_tags(h, word.n), exclude)
        IN inclusion # -1 /\ inclusion > exclusion
  IN SelectSeq(h.sents[s].items, Keep)

Sentence_nouns(h, s) ==
  Sentence_select(h, s, NounTags \cup {"ETN", "XSN"}, {"XSV", "XSA", "XSM"})

\* the inclusion rule of the getter asks isPredicate()
Sentence_modifiers(h, s) ==
  Sentence_select(h, s, PredicateTags \cup {"ETM", "XSA", "XSM"},
                  {"ETN", "XSN", "XSV"})

\* a plain array returned by a getter
List(items) == [t |-> "Array", n |-> 0, s |-> "", items |-> items]

----------------------------------------------------------------------------
(* The JVM wrapper: the node-java handle and the package map it stores.    *)

\* a JavaScript object that is not part of the data model
Object(k) == [t |-> "Object", n |-> k, s |-> ""]

\* typeof x, for the values init can be given
typeof(x) ==
  CASE x = Undef -> Str("undefined")
    [] x.t = "string" -> Str("string")
    [] OTHER -> Str("object")

\* the truth value of x in a condition
Truthy(x) ==
  /\ x # Undef /\ x # Null
  /\ x # Str("") /\ x # Num(0) /\ x # Bool(FALSE)

\* export const JVM = new _JVM(): java = null, packages = {}
JVM_new == [java |-> Null, packages |-> Object(0), err |-> FALSE]

\* _JVM.init(java, packages)
JVM_init(j, java, packages) ==
  IF typeof(java) = Undef \/ java = Null \/ Truthy(j.java)
  THEN [j EXCEPT !.err = TRUE]
  ELSE [java |-> java, packages |-> packages, err |-> FALSE]

----------------------------------------------------------------------------
(* The analyzer-facing calls of SentenceSplitter (sentences), Tagger (tag, *)
(* tagSentence) and Parser, RoleLabeler, EntityRecognizer (analyze).  An   *)
(* argument is a string, a Sentence or an array of arguments.  The native  *)
(* analyzer is an oracle from a text to the names of the native sentences  *)
(* it answers, the same for the blocking and the promise entry point; the  *)
(* Sentence built from the native sentence x is SentenceOf(x).  A call     *)
(* yields its result items, the texts handed to the analyzer, and whether  *)
(* it threw (or its promise was rejected).                                 *)

SentenceOf(x) == [t |-> "Sentence", n |-> 0, s |-> x]

\* paragraph.trim().length: 0 for the empty and the all-blank text
TrimLength(text) ==
  CASE text = "" -> 0
    [] text = " " -> 0
    [] text = "a" -> 1
    [] text = "a. b" -> 4

\* what the analyzer answers for a paragraph: its native sentences
NativeParagraph(text) ==
  CASE text = "a" -> <<"a">>
    [] text = "a. b" -> <<"a.", "b">>
    [] OTHER -> <<>>

\* the items one non-blank string adds to the result
Api_items(kind, text) ==
  CASE kind = "sentences" ->
         [k \in DOMAIN NativeParagraph(text) |-> Str(NativeParagraph(text)[k])]
    [] kind = "tagSentence" -> <<SentenceOf(text)>>
    [] OTHER ->
         [k \in DOMAIN NativeParagraph(text) |-> SentenceOf(NativeParagraph(text)[k])]

Api_start == [items |-> <<>>, calls |-> <<>>, err |-> FALSE]

RECURSIVE Api_async_front(_, _, _, _)
\* as Api_async, putting the results of a nested array in front
Api_async_front(kind, text, i, acc) ==
  IF acc.err \/ i > Len(text) THEN acc
  ELSE LET paragraph == text[i] IN
       IF kind = "analyze" /\ paragraph.t = "Sentence"
       THEN Api_async_front(kind, text, i + 1,
                            [acc EXCEPT !.items = Append(@, SentenceOf(paragraph.s)),
                                        !.calls = Append(@, paragraph)])
       ELSE IF paragraph.t = "Array"
       THEN LET promiseResult ==
                  Api_async_front(kind, paragraph.items, 1,
                                  [Api_start EXCEPT !.calls = acc.calls])
            IN Api_async_front(kind, text, i + 1,
                               [items |-> promiseResult.items \o acc.items,
                                calls |-> promiseResult.calls,
                                err |-> promiseResult.err])
       ELSE IF paragraph.t # "string"
       THEN [acc EXCEPT !.err = TRUE]
       ELSE IF TrimLength(paragraph.s) = 0
       THEN Api_async_front(kind, text, i + 1, acc)
       ELSE Api_async_front(kind, text, i + 1,
                            [acc EXCEPT !.items = @ \o Api_items(kind, paragraph.s),
                                        !.calls = Append(@, paragraph)])

RECURSIVE Api_async(_, _, _, _)
\* sentences, tag, tagSentence, analyze: the promise entry point, awaited
\* paragraph by paragraph
Api_async(kind, text, i, acc) ==
  IF acc.err \/ i > Len(text) THEN acc
  ELSE LET paragraph == text[i] IN
       IF kind = "analyze" /\ paragraph.t = "Sentence"
       THEN Api_async(kind, text, i + 1,
                      [acc EXCEPT !.items = Append(@, SentenceOf(paragraph.s)),
                                  !.calls = Append(@, paragraph)])
       ELSE IF paragraph.t = "Array"
       THEN LET promiseResult ==
                  Api_async(kind, paragraph.items, 1,
                            [Api_start EXCEPT !.calls = acc.calls])
            IN Api_async(kind, text, i + 1,
                         [items |-> acc.items \o promiseResult.items,
                          calls |-> promiseResult.calls,
                          err |-> promiseResult.err])
       ELSE IF paragraph.t # "string"
       THEN [acc EXCEPT !.err = TRUE]
       ELSE IF TrimLength(paragraph.s) = 0
       THEN Api_async(kind, text, i + 1, acc)
       ELSE Api_async(kind, text, i + 1,
                      [acc EXCEPT !.items = @ \o Api_items(kind, paragraph.s),
                                  !.calls = Append(@, paragraph)])

RECURSIVE Api_sync_noSkip(_, _, _, _)
\* as Api_sync, without the test for a blank paragraph
Api_sync_noSkip(kind, text, i, acc) ==
  IF acc.err \/ i > Len(text) THEN acc
  ELSE LET paragraph == text[i] IN
       IF kind = "analyze" /\ paragraph.t = "Sentence"
       THEN Api_sync_noSkip(kind, text, i + 1,
                            [acc EXCEPT !.items = Append(@, SentenceOf(paragraph.s)),
                                        !.calls = Append(@, paragraph)])
       ELSE IF paragraph.t = "Array"
       THEN Api_sync_noSkip(kind, text, i + 1,
                            Api_sync_noSkip(kind, paragraph.items, 1, acc))
       ELSE IF paragraph.t # "string"
       THEN [acc EXCEPT !.err = TRUE]
       ELSE Api_sync_noSkip(kind, text, i + 1,
                            [acc EXCEPT !.items = @ \o Api_items(kind, paragraph.s),
                                        !.calls = Append(@, paragraph)])

RECURSIVE Api_sync(_, _, _, _)
\* sentencesSync, tagSync, tagSentenceSync, analyzeSync: the blocking entry
\* point; the results of a nested array are pushed as they return
Api_sync(kind, text, i, acc) ==
  IF acc.err \/ i > Len(text) THEN acc
  ELSE LET paragraph == text[i] IN
       IF kind = "analyze" /\ paragraph.t = "Sentence"
       THEN Api_sync(kind, text, i + 1,
                     [acc EXCEPT !.items = Append(@, SentenceOf(paragraph.s)),
                                 !.calls = Append(@, paragraph)])
       ELSE IF paragraph.t = "Array"
       THEN Api_sync(kind, text, i + 1, Api_sync(kind, paragraph.items, 1, acc))
       ELSE IF paragraph.t # "string"
       THEN [acc EXCEPT !.err = TRUE]
       ELSE IF TrimLength(paragraph.s) = 0
       THEN Api_sync(kind, text, i + 1, acc)
       ELSE Api_sync(kind, text, i + 1,
                     [acc EXCEPT !.items = @ \o Api_items(kind, paragraph.s),
                                 !.calls = Append(@, paragraph)])

----------------------------------------------------------------------------
(* ImmutableArray, the container part of Word, Sentence, Entity,           *)
(* CoreferenceGroup and SyntaxTree: `items` is the array the constructor   *)
(* was given, frozen, and kept as _items.                                  *)

\* as ImmutableArray_new, keeping the array without freezing it
ImmutableArray_new_nofreeze(h, cls, items, types) ==
  IF ~isDefined(items) \/ ~typeCheck(h.arrays[items.n].items, types)
  THEN Throw(h)
  ELSE [h EXCEPT !.lists = Append(@, [cls |-> cls, items |-> items]),
                 !.ret = Ref("ImmutableArray", Len(h.lists) + 1)]

\* super(items, ...type) in the constructor of class cls; an undefined or
\* null items makes typeCheck throw
ImmutableArray_new(h, cls, items, types) ==
  IF ~isDefined(items) \/ ~typeCheck(h.arrays[items.n].items, types)
  THEN Throw(h)
  ELSE [h EXCEPT !.arrays = Object_freeze(@, items),
                 !.lists = Append(@, [cls |-> cls, items |-> items]),
                 !.ret = Ref("ImmutableArray", Len(h.lists) + 1)]

ImmutableArray_toArray(h, c) == h.lists[c].items

ImmutableArray_items(h, c) == h.arrays[h.lists[c].items.n].items

ImmutableArray_length(h, c) == Len(ImmutableArray_items(h, c))

\* container[name] = value for a numeric name: the set trap answers false,
\* which throws in strict code and is dropped in sloppy code
ImmutableArray_set(h, c, strict) == [h EXCEPT !.err = strict]

\* Array#indexOf on a sequence: the least 0-based index of an item identical
\* to value, or -1
Array_indexOf(items, value) ==
  IF \E k \in DOMAIN items : items[k] = value
  THEN Num((CHOOSE k \in DOMAIN items :
              /\ items[k] = value
              /\ \A j \in 1..(k - 1) : items[j] # value) - 1)
  ELSE Num(-1)

ImmutableArray_indexOf(h, c, value) ==
  [h EXCEPT !.ret = Array_indexOf(ImmutableArray_items(h, c), value)]

\* lastIndexOf returns this._items.indexOf(value)
ImmutableArray_lastIndexOf(h, c, value) ==
  [h EXCEPT !.ret = Array_indexOf(ImmutableArray_items(h, c), value)]

\* container.slice(start, end) for 0 <= start, end: a new array
ImmutableArray_slice(h, c, start, end) ==
  Array_new(h, SubSeq(ImmutableArray_items(h, c), start + 1,
                      IF end < ImmutableArray_length(h, c) THEN end
                      ELSE ImmutableArray_length(h, c)), "slice")

\* container.filter(y => y === x): a new array
ImmutableArray_filter(h, c, x) ==
  LET Test(y) == y = x
  IN Array_new(h, SelectSeq(ImmutableArray_items(h, c), Test), "filter")

\* container.map(y => y): a new array
ImmutableArray_map(h, c) == Array_new(h, ImmutableArray_items(h, c), "map")

----------------------------------------------------------------------------
(* Sentence, reconstructed from a native result.  A native result is a     *)
(* record: words (a list of morpheme lists), tree (a list of nodes, the    *)
(* first one the root, empty when there is no tree), deps, roles, ents and *)
(* corefs.  A native reference to a word is Null or the number getId()     *)
(* answers; a native reference to a morpheme is a pair of such numbers.    *)

RECURSIVE Recon_morphemes(_, _, _, _)
Recon_morphemes(h, jword, i, acc) ==
  IF i > Len(jword) THEN [h EXCEPT !.ret = acc]
  ELSE LET h1 == Morpheme_newFrom(h, jword[i].surface, jword[i].tag,
                                   jword[i].sense)
       IN Recon_morphemes(h1, jword, i + 1, Append(acc, h1.ret))

RECURSIVE Recon_words(_, _, _, _)
Recon_words(h, jwords, i, acc) ==
  IF h.err \/ i > Len(jwords) THEN [h EXCEPT !.ret = acc]
  ELSE LET h1 == Recon_morphemes(h, jwords[i], 1, <<>>)
           h2 == Word_new(h1, Str("w"), h1.ret)
       IN Recon_words(h2, jwords, i + 1, Append(acc, h2.ret))

Sentence_getWord(items, jword) ==
  IF isDefined(jword) THEN ImmutableArray_get(items, jword.n) ELSE Undef

\* this[jmorph.getWord().getId()][jmorph.getId()]; err when the word is undefined
Sentence_getMorph(h, items, jmorph) ==
  LET w == ImmutableArray_get(items, jmorph.w)
  IN IF w = Undef THEN [err |-> TRUE, ret |-> Undef]
     ELSE [err |-> FALSE, ret |-> ImmutableArray_get(h.words[w.n].items, jmorph.m)]

RECURSIVE Sentence_reconSyntaxTree(_, _, _, _)
RECURSIVE Recon_children(_, _, _, _, _, _)
Recon_children(h, items, jtree, kids, i, acc) ==
  IF h.err \/ i > Len(kids) THEN [h EXCEPT !.ret = acc]
  ELSE LET h1 == Sentence_reconSyntaxTree(h, items, jtree, kids[i])
       IN Recon_children(h1, items, jtree, kids, i + 1, Append(acc, h1.ret))

Sentence_reconSyntaxTree(h, items, jtree, node) ==
  LET j == jtree[node]
      term == IF isDefined(j.terminal) THEN Sentence_getWord(items, j.terminal)
              ELSE Undef
      hk == IF j.kids # <<>> THEN Recon_children(h, items, jtree, j.kids, 1, <<>>)
            ELSE h
  IN IF hk.err THEN hk
     ELSE SyntaxTree_new(hk, j.label, term,
            IF j.kids # <<>> THEN [given |-> TRUE, items |-> hk.ret]
            ELSE [given |-> FALSE, items |-> <<>>])

RECURSIVE Recon_deps(_, _, _, _, _)
Recon_deps(h, items, jdeps, i, acc) ==
  IF h.err \/ i > Len(jdeps) THEN [h EXCEPT !.ret = acc]
  ELSE LET h1 == DepEdge_new(h, [governor |-> Sentence_getWord(items, jdeps[i].governor),
                                  dependent |-> Sentence_getWord(items, jdeps[i].dependent),
                                  type |-> jdeps[i].type, depType |-> Undef,
                                  src |-> Undef, dest |-> Undef, label |-> Undef])
       IN Recon_deps(h1, items, jdeps, i + 1, Append(acc, h1.ret))

Recon_modifiers(items, jmods) ==
  [k \in DOMAIN jmods |-> Sentence_getWord(items, jmods[k])]

RECURSIVE Recon_roles(_, _, _, _, _)
Recon_roles(h, items, jroles, i, acc) ==
  IF h.err \/ i > Len(jroles) THEN [h EXCEPT !.ret = acc]
  ELSE LET h1 == RoleEdge_new(h, [predicate |-> Sentence_getWord(items, jroles[i].predicate),
                                   argument |-> Sentence_getWord(items, jroles[i].argument),
                                   label |-> jroles[i].label,
                                   modifiers |-> Recon_modifiers(items, jroles[i].modifiers)])
       IN Recon_roles(h1, items, jroles, i + 1, Append(acc, h1.ret))

Sentence_getEntity(h, items, jent) ==
  LET ms == [k \in DOMAIN jent.morphemes |-> Sentence_getMorph(h, items, jent.morphemes[k])]
  IN IF \E k \in DOMAIN ms : ms[k].err THEN Throw(h)
     ELSE Entity_new(h, jent.surface, jent.label, jent.fineLabel,
                     [k \in DOMAIN ms |-> ms[k].ret])

RECURSIVE Recon_entities(_, _, _, _, _)
Recon_entities(h, items, jents, i, acc) ==
  IF h.err \/ i > Len(jents) THEN [h EXCEPT !.ret = acc]
  ELSE LET h1 == Sentence_getEntity(h, items, jents[i])
       IN Recon_entities(h1, items, jents, i + 1, Append(acc, h1.ret))

Morpheme_equals(h, a, b) ==
  h.morphs[a].surface = h.morphs[b].surface /\ h.morphs[a].tag.s = h.morphs[b].tag.s

Entity_equals(h, a, b) ==
  /\ h.ents[a].label = h.ents[b].label
  /\ h.ents[a].fineLabel = h.ents[b].fineLabel
  /\ Len(h.ents[a].items) = Len(h.ents[b].items)
  /\ \A k \in DOMAIN h.ents[a].items :
        Morpheme_equals(h, h.ents[a].items[k].n, h.ents[b].items[k].n)

\* a.equals(b) for an item a of a container: Morpheme.equals asks for a
\* Morpheme; Entity.equals compares _label, which only an Entity has
Item_equals(h, a, b) ==
  CASE a.t = "Morpheme" -> b.t = "Morpheme" /\ Morpheme_equals(h, a.n, b.n)
    [] a.t = "Entity" -> b.t = "Entity" /\ Entity_equals(h, a.n, b.n)
    [] OTHER -> FALSE

\* what other.length and the elements of other read as: a container answers
\* through its proxy, a plain array by itself
Other_items(h, other) ==
  IF other.t = "ImmutableArray" THEN ImmutableArray_items(h, other.n)
  ELSE h.arrays[other.n].items

\* typeof other is 'object' for null (whose length cannot be read), for a
\* plain array and for a container of any class
ImmutableArray_equals(h, c, other) ==
  IF other = Null THEN Throw(h)
  ELSE IF other.t \notin {"ImmutableArray", "Array"}
  THEN [h EXCEPT !.ret = Bool(FALSE)]
  ELSE [h EXCEPT !.ret =
          Bool(/\ Len(Other_items(h, other)) = ImmutableArray_length(h, c)
               /\ \A k \in 1..ImmutableArray_length(h, c) :
                    Item_equals(h, ImmutableArray_items(h, c)[k],
                                Other_items(h, other)[k]))]

\* word.equals(other) for the src or dest of an edge: the container test
\* asks for the type of other, which undefined does not share
Word_equals(h, a, other) ==
  /\ other # Undef
  /\ Len(h.words[other.n].items) = Len(h.words[a].items)
  /\ \A k \in DOMAIN h.words[a].items :
       Morpheme_equals(h, h.words[a].items[k].n, h.words[other.n].items[k].n)
  /\ h.words[a].surface = h.words[other.n].surface

\* DAGEdge.equals: this.src.equals is read on whatever src is
DAGEdge_equals(h, this, other) ==
  IF this.label # other.label THEN [h EXCEPT !.ret = Bool(FALSE)]
  ELSE IF this.src = Undef THEN Throw(h)
  ELSE [h EXCEPT !.ret = Bool(/\ Word_equals(h, this.src.n, other.src)
                              /\ Word_equals(h, this.dest.n, other.dest))]

DepEdge_equals(h, a, b) ==
  IF h.deps[a].type # h.deps[b].type THEN [h EXCEPT !.ret = Bool(FALSE)]
  ELSE DAGEdge_equals(h, h.deps[a], h.deps[b])

\* RoleEdge inherits equals from DAGEdge
RoleEdge_equals(h, a, b) == DAGEdge_equals(h, h.roles[a], h.roles[b])

\* this.entities.find((enty) => enty.equals(referenced))
Sentence_findEntity(h, entities, referenced) ==
  IF \E k \in DOMAIN entities : Entity_equals(h, entities[k].n, referenced.n)
  THEN entities[CHOOSE k \in DOMAIN entities :
                  /\ Entity_equals(h, entities[k].n, referenced.n)
                  /\ \A l \in 1..(k - 1) : ~Entity_equals(h, entities[l].n, referenced.n)]
  ELSE Undef

RECURSIVE Recon_corefMembers(_, _, _, _, _, _)
Recon_corefMembers(h, items, entities, jgroup, i, acc) ==
  IF h.err \/ i > Len(jgroup) THEN [h EXCEPT !.ret = acc]
  ELSE LET h1 == Sentence_getEntity(h, items, jgroup[i])
       IN IF h1.err THEN h1
          ELSE Recon_corefMembers(h1, items, entities, jgroup, i + 1,
                 Append(acc, Sentence_findEntity(h1, entities, h1.ret)))

RECURSIVE Recon_corefGroups(_, _, _, _, _, _)
Recon_corefGroups(h, items, entities, jgroups, i, acc) ==
  IF h.err \/ i > Len(jgroups) THEN [h EXCEPT !.ret = acc]
  ELSE LET h1 == Recon_corefMembers(h, items, entities, jgroups[i], 1, <<>>)
           h2 == IF h1.err THEN h1 ELSE CoreferenceGroup_new(h1, h1.ret)
       IN Recon_corefGroups(h2, items, entities, jgroups, i + 1, Append(acc, h2.ret))

\* as toJsArray, without the guard for an absent list
toJsArray_absentThrows(value, name) ==
  [err |-> name \in value.absent, items |-> value[name]]

\* JVM.toJsArray(value.getX(), ...): the native list to convert, [] when the
\* native result has none (undefined or null)
toJsArray(value, name) ==
  IF name \in value.absent THEN [err |-> FALSE, items |-> <<>>]
  ELSE [err |-> FALSE, items |-> value[name]]

\* The statements of the constructor after super(words, 'Word'), in order;
\* s is the Sentence under construction, a statement is skipped once one threw.
Recon_statement(h, s, items, value, k) ==
  IF h.err THEN h
  ELSE CASE k = 1 ->   \* this.syntaxTree = this._reconSyntaxTree(...)
              LET ht == IF value.tree # <<>>
                        THEN Sentence_reconSyntaxTree(h, items, value.tree, 1)
                        ELSE [h EXCEPT !.ret = Undef]
              IN IF ht.err THEN ht
                 ELSE [ht EXCEPT !.sents[s].syntaxTree =
                                    writeonlyonce_set(Undef, ht.ret).value]
         [] k = 2 ->   \* this.dependencies = ...
              LET js == toJsArray(value, "deps")
                  hd == IF js.err THEN Throw(h)
                        ELSE Recon_deps(h, items, js.items, 1, <<>>)
              IN IF hd.err THEN hd
                 ELSE Sentence_setList(Array_new(hd, hd.ret, "toJsArray"), s, "dependencies",
                                       Ref("Array", Len(hd.arrays) + 1))
         [] k = 3 ->   \* this.roles = ...
              LET js == toJsArray(value, "roles")
                  hr == IF js.err THEN Throw(h)
                        ELSE Recon_roles(h, items, js.items, 1, <<>>)
              IN IF hr.err THEN hr
                 ELSE Sentence_setList(Array_new(hr, hr.ret, "toJsArray"), s, "roles",
                                       Ref("Array", Len(hr.arrays) + 1))
         [] k = 4 ->   \* this.entities = ...
              LET js == toJsArray(value, "ents")
                  he == IF js.err THEN Throw(h)
                        ELSE Recon_entities(h, items, js.items, 1, <<>>)
              IN IF he.err THEN he
                 ELSE Sentence_setList(Array_new(he, he.ret, "toJsArray"), s, "entities",
                                       Ref("Array", Len(he.arrays) + 1))
         [] k = 5 ->   \* this.corefGroups = ...
              LET js == toJsArray(value, "corefs")
                  hc == IF js.err THEN Throw(h)
                        ELSE Recon_corefGroups(h, items, Sentence_list(h, s, "entities"),
                                               js.items, 1, <<>>)
              IN IF hc.err THEN hc
                 ELSE Sentence_setList(Array_new(hc, hc.ret, "toJsArray"), s, "corefGroups",
                                       Ref("Array", Len(hc.arrays) + 1))
         [] OTHER ->   \* for (const [i, word] of this.entries()) word.id = i;
              Sentence_wire(h, items, 1)

RECURSIVE Recon_statements(_, _, _, _, _)
\* the statements from the k-th on; each starts from the heap the one before left
Recon_statements(h, s, items, value, k) ==
  IF k > 6 THEN h
  ELSE CHOOSE r \in {Recon_statements(g, s, items, value, k + 1) :
                       g \in {Recon_statement(h, s, items, value, k)}} : TRUE

\* hw is the heap after `let words = JVM.toJsArray(value, ...)`, hw.ret the
\* words.  Nothing built by a reconstruction that throws is reachable by the
\* caller: the heap the caller sees is the one before the call.
Sentence_reconFrom(h, hw, value) ==
  LET s == Len(hw.sents) + 1
      g == Recon_statements(
             Sentence_record(hw, hw.ret, TRUE),
             s, hw.ret, value, 1)
  IN IF g.err THEN Throw(h) ELSE [g EXCEPT !.ret = Ref("Sentence", s)]

Sentence_recon(h, value) ==
  CHOOSE r \in {Sentence_reconFrom(h, hw, value) :
                  hw \in {Recon_words(h, value.words, 1, <<>>)}} : TRUE

----------------------------------------------------------------------------
(* Inputs of the operations.                                               *)

SeqsUpTo(S, n) == UNION {[1..k -> S] : k \in 0..n}

Refs(cls, pool) == {Ref(cls, i) : i \in 1..Len(pool)}

OneSurface == {Str("a")}

OneTag == {Str("NNG")}

PhraseLabels == {Str("NP"), [t |-> "PhraseTag", n |-> 0, s |-> "NP"]}

\* Native results: one or more native words, the first of one morpheme and
\* the others of two, and one kind of annotation at a time (coreference
\* entries come with one entity, over the first morpheme, or with the two
\* entities over the first morphemes of the first two words).  Native ids
\* run from one below the first position to one past the last.
JWord(k) ==
  IF k = 1 THEN <<[surface |-> Str("a"), tag |-> Str("NNG"), sense |-> Num(1)]>>
  ELSE <<[surface |-> Str("a"), tag |-> Str("NNG"), sense |-> Num(1)],
         [surface |-> Str("b"), tag |-> Str("VV"), sense |-> Null]>>

JWords == {[k \in 1..n |-> JWord(k)] : n \in 1..MaxNativeWords}

NativeIds == (-1)..MaxNativeWords

JWordRefs == {Null} \cup {Num(k) : k \in NativeIds}

JNode(terminal, kids) == [label |-> Str("NP"), terminal |-> terminal, kids |-> kids]

JTrees ==
  {<<JNode(t, <<>>)>> : t \in JWordRefs} \cup
  {<<JNode(Null, <<2, 3>>), JNode(t1, <<>>), JNode(t2, <<>>)>> :
     t1 \in JWordRefs, t2 \in JWordRefs}

JDeps ==
  {<<[governor |-> g, dependent |-> d, type |-> Str("NP")]>> :
     g \in JWordRefs, d \in JWordRefs \ {Null}}

JRoles ==
  {<<[predicate |-> p, argument |-> a, label |-> Str("ARG0"), modifiers |-> <<>>]>> :
     p \in JWordRefs, a \in JWordRefs} \cup
  {<<[predicate |-> Num(0), argument |-> Num(0), label |-> Str("ARG0"),
      modifiers |-> <<Num(k)>>]>> : k \in NativeIds}

JEntity(w, m) ==
  [surface |-> Str("e"), label |-> Str("PS"), fineLabel |-> Str("PS_NAME"),
   morphemes |-> <<[w |-> w, m |-> m]>>]

JEntities == {JEntity(w, m) : w \in NativeIds, m \in NativeIds}

\* absent: the names of the lists the native result does not have
Native(ws, tree, ds, rs, es, cs) ==
  [words |-> ws, tree |-> tree, deps |-> ds, roles |-> rs, ents |-> es, corefs |-> cs,
   absent |-> {}]

NativeLists == {"deps", "roles", "ents", "corefs"}

NativeResults ==
  UNION {{Native(ws, t, <<>>, <<>>, <<>>, <<>>) : t \in JTrees} \cup
         {Native(ws, <<>>, d, <<>>, <<>>, <<>>) : d \in JDeps} \cup
         {Native(ws, <<>>, <<>>, r, <<>>, <<>>) : r \in JRoles} \cup
         {Native(ws, <<>>, <<>>, <<>>, <<e>>, <<>>) : e \in JEntities} \cup
         {Native(ws, <<>>, <<>>, <<>>, <<JEntity(0, 0)>>, << <<c>> >>) :
            c \in JEntities} \cup
         {Native(ws, <<>>, <<>>, <<>>, <<JEntity(0, 0), JEntity(1, 0)>>,
                 << <<c>> >>) : c \in {JEntity(0, 0), JEntity(1, 0)}} \cup
         {[Native(ws, <<>>, <<>>, <<>>, <<>>, <<>>) EXCEPT !.absent = a] :
            a \in SUBSET NativeLists} : ws \in JWords}

----------------------------------------------------------------------------
(* Actions: one per public operation.  `last` records the call, whether it *)
(* threw and what it returned, and the arguments of the calls whose        *)
(* outcome is stated in terms of them.                                     *)

\* the operations of a caller on objects that exist, bounded by MaxAssigns
CallerOps ==
  {"assign", "assignList", "mutate", "assignTree", "assignSense", "setIndex",
   "copy"}

Commit(r, op, args) ==
  /\ morphs' = r.morphs /\ words' = r.words /\ trees' = r.trees
  /\ deps' = r.deps /\ roles' = r.roles /\ ents' = r.ents
  /\ groups' = r.groups /\ sents' = r.sents /\ arrays' = r.arrays
  /\ lists' = r.lists
  /\ last' = [op |-> op, args |-> args, err |-> r.err,
              ret |-> IF r.err THEN Undef ELSE r.ret]
  /\ assigns' = IF op \in CallerOps THEN assigns + 1 ELSE assigns
  /\ jvm' = jvm

Init ==
  /\ morphs = <<>> /\ words = <<>> /\ trees = <<>> /\ deps = <<>>
  /\ roles = <<>> /\ ents = <<>> /\ groups = <<>> /\ sents = <<>>
  /\ arrays = <<>> /\ lists = <<>>
  /\ last = [op |-> "init", args |-> <<>>, err |-> FALSE, ret |-> Undef]
  /\ assigns = 0
  /\ jvm = JVM_new

NewMorpheme(S, T) ==
  /\ Len(morphs) < MaxMorphs
  /\ \E surface \in S, tag \in T :
       Commit(Morpheme_new(Heap, surface, tag), "Morpheme", <<>>)

\* new Morpheme(value) with a native reference
NewNativeMorpheme ==
  /\ Len(morphs) < MaxMorphs
  /\ \E sense \in {Null, Num(1), Num(2)} :
       Commit(Morpheme_newFrom(Heap, Str("a"), Str("NNG"), sense), "Morpheme", sense)

NewWord ==
  /\ Len(words) < MaxWords
  /\ \E morphemes \in SeqsUpTo(Refs("Morpheme", morphs), MaxItems) :
       Commit(Word_new(Heap, Str("w"), morphemes), "Word", <<>>)

NewEntity ==
  /\ Len(ents) < MaxEnts
  /\ \E morphemes \in SeqsUpTo(Refs("Morpheme", morphs), MaxItems) :
       Commit(Entity_new(Heap, Str("e"), Str("PS"), Str("PS_NAME"), morphemes),
              "Entity", <<>>)

NewCoreferenceGroup ==
  /\ Len(groups) < MaxGroups
  /\ \E entities \in SeqsUpTo(Refs("Entity", ents), MaxItems) :
       Commit(CoreferenceGroup_new(Heap, entities), "CoreferenceGroup", <<>>)

NewSyntaxTree ==
  /\ Len(trees) < MaxTrees
  /\ \E label \in PhraseLabels,
        terminal \in {Undef} \cup Refs("Word", words),
        children \in {[given |-> FALSE, items |-> <<>>]} \cup
                     {[given |-> TRUE, items |-> c] :
                        c \in SeqsUpTo(Refs("SyntaxTree", trees), MaxItems)} :
       Commit(SyntaxTree_new(Heap, label, terminal, children), "SyntaxTree",
              [label |-> label, terminal |-> terminal, children |-> children])

\* value is {governor, dependent, type}, or that with src and dest as well
NewDepEdge ==
  /\ Len(deps) < MaxDeps
  /\ \E governor \in {Undef} \cup Refs("Word", words),
        dependent \in Refs("Word", words),
        withSrcDest \in BOOLEAN :
       LET value == [governor |-> governor, dependent |-> dependent,
                     type |-> Str("NP"), depType |-> Undef, label |-> Undef,
                     src |-> IF withSrcDest THEN governor ELSE Undef,
                     dest |-> IF withSrcDest THEN dependent ELSE Undef]
       IN Commit(DepEdge_new(Heap, value), "DepEdge", value)

NewRoleEdge ==
  /\ Len(roles) < MaxRoles
  /\ \E predicate \in {Undef} \cup Refs("Word", words),
        argument \in {Undef} \cup Refs("Word", words) :
       LET value == [predicate |-> predicate, argument |-> argument,
                     label |-> Str("ARG0"), modifiers |-> <<>>]
       IN Commit(RoleEdge_new(Heap, value), "RoleEdge", value)

NewSentence ==
  /\ Len(sents) < MaxSents
  /\ \E value \in SeqsUpTo(Refs("Word", words), MaxItems) :
       Commit(Sentence_new(Heap, value), "Sentence", <<>>)

\* new Sentence(value) while other Sentences exist
AnotherSentence ==
  /\ Len(sents) < MaxSentences
  /\ \E value \in SeqsUpTo(Refs("Word", words), MaxItems) :
       Commit(Sentence_new(Heap, value), "Sentence", [value |-> value])

\* new Sentence(value) for a native result
Reconstruct ==
  /\ Len(sents) < MaxSents
  /\ \E value \in NativeResults :
       Commit(Sentence_recon(Heap, value), "recon", value)

----------------------------------------------------------------------------
(* Plain assignment to a write-once property, as any caller may do.        *)

Fields ==
  {"Morpheme.word", "Morpheme.id", "Word.id", "Word.phrase",
   "Word.governorEdge", "Tree.parent", "Entity.corefGroup"}

FieldPool(h, f) ==
  CASE f \in {"Morpheme.word", "Morpheme.id"} -> h.morphs
    [] f \in {"Word.id", "Word.phrase", "Word.governorEdge"} -> h.words
    [] f = "Tree.parent" -> h.trees
    [] f = "Entity.corefGroup" -> h.ents

RawField(h, f, n) ==
  CASE f = "Morpheme.word" -> h.morphs[n].word
    [] f = "Morpheme.id" -> h.morphs[n].id
    [] f = "Word.id" -> h.words[n].id
    [] f = "Word.phrase" -> h.words[n].phrase
    [] f = "Word.governorEdge" -> h.words[n].governorEdge
    [] f = "Tree.parent" -> h.trees[n].parent
    [] f = "Entity.corefGroup" -> h.ents[n].corefGroup

SetRawField(h, f, n, v) ==
  CASE f = "Morpheme.word" -> [h EXCEPT !.morphs[n].word = v]
    [] f = "Morpheme.id" -> [h EXCEPT !.morphs[n].id = v]
    [] f = "Word.id" -> [h EXCEPT !.words[n].id = v]
    [] f = "Word.phrase" -> [h EXCEPT !.words[n].phrase = v]
    [] f = "Word.governorEdge" -> [h EXCEPT !.words[n].governorEdge = v]
    [] f = "Tree.parent" -> [h EXCEPT !.trees[n].parent = v]
    [] f = "Entity.corefGroup" -> [h EXCEPT !.ents[n].corefGroup = v]

AssignValues(h, f) ==
  {Undef, Null} \cup
  CASE f \in {"Morpheme.id", "Word.id"} -> {Num(0), Num(1)}
    [] f = "Morpheme.word" -> Refs("Word", h.words)
    [] f \in {"Word.phrase", "Tree.parent"} -> Refs("SyntaxTree", h.trees)
    [] f = "Word.governorEdge" -> Refs("DepEdge", h.deps)
    [] f = "Entity.corefGroup" -> Refs("CoreferenceGroup", h.groups)

Assign ==
  /\ assigns < MaxAssigns
  /\ \E f \in Fields :
    \E n \in 1..Len(FieldPool(Heap, f)), newValue \in AssignValues(Heap, f) :
      LET set == writeonlyonce_set(RawField(Heap, f, n), newValue)
      IN Commit([SetRawField(Heap, f, n, set.value) EXCEPT !.err = set.err],
                "assign", [field |-> f, obj |-> n, newValue |-> newValue])

ListFields == {"dependencies", "roles", "entities", "corefGroups"}

\* an array literal of a caller, with elements from S
NewArray(S) ==
  /\ Cardinality({a \in DOMAIN arrays : arrays[a].by = "caller"}) < MaxArrays
  /\ \E items \in SeqsUpTo(S, MaxItems) :
       Commit(Array_new(Heap, items, "caller"), "Array", items)

\* sentence[name] = newValue
AssignList ==
  /\ assigns < MaxAssigns
  /\ \E s \in 1..Len(sents), name \in ListFields,
        newValue \in {Undef} \cup Refs("Array", arrays) :
       Commit(Sentence_setList(Heap, s, name, newValue), "assignList",
              [obj |-> s, field |-> name, newValue |-> newValue])

\* a caller's change of an array it holds a reference to, x from S
MutateArray(S) ==
  /\ assigns < MaxAssigns
  /\ \E a \in 1..Len(arrays), method \in {"push", "pop", "set"},
        x \in S, strict \in BOOLEAN :
       /\ method = "push" => Len(arrays[a].items) < MaxItems
       /\ Commit(Array_mutate(Heap, a, method, x, strict), "mutate",
                 [array |-> a, method |-> method])

\* the item types the five container classes hand to super(items, ...type)
ItemTypes ==
  [Word |-> {"Morpheme"}, Sentence |-> {"Word"}, Entity |-> {"Morpheme"},
   CoreferenceGroup |-> {"Entity"}, SyntaxTree |-> {"SyntaxTree", "Tree"}]

\* the ImmutableArray constructor, as each container class calls it
NewImmutableArray ==
  /\ Len(lists) < MaxLists
  /\ \E cls \in DOMAIN ItemTypes, items \in {Undef} \cup Refs("Array", arrays) :
       Commit(ImmutableArray_new(Heap, cls, items, ItemTypes[cls]), "ImmutableArray",
              [cls |-> cls, array |-> items,
               items |-> IF isDefined(items) THEN arrays[items.n].items ELSE <<>>])

\* container[0] = x
SetIndex ==
  /\ assigns < MaxAssigns
  /\ \E c \in 1..Len(lists), strict \in BOOLEAN :
       Commit(ImmutableArray_set(Heap, c, strict), "setIndex", [list |-> c])

\* container.map, container.filter and container.slice
CopyItems(S) ==
  /\ assigns < MaxAssigns
  /\ \E c \in 1..Len(lists) :
       \/ Commit(ImmutableArray_map(Heap, c), "copy", [list |-> c])
       \/ \E x \in S :
            Commit(ImmutableArray_filter(Heap, c, x), "copy", [list |-> c])
       \/ \E start \in 0..1, end \in 1..MaxItems :
            Commit(ImmutableArray_slice(Heap, c, start, end), "copy", [list |-> c])

\* container.indexOf(value)
IndexOf ==
  \E c \in 1..Len(lists), value \in {Undef} \cup Refs("Morpheme", morphs) :
    Commit(ImmutableArray_indexOf(Heap, c, value), "indexOf",
           [this |-> c, value |-> value])

\* container.lastIndexOf(value)
LastIndexOf ==
  \E c \in 1..Len(lists), value \in {Undef} \cup Refs("Morpheme", morphs) :
    Commit(ImmutableArray_lastIndexOf(Heap, c, value), "lastIndexOf",
           [this |-> c, value |-> value])

JavaHandles == {Ref("NodeAPI", k) : k \in 1..MaxHandles}

PackageMaps == {Object(k) : k \in 1..MaxPackages}

\* JVM.init(java, packages), java possibly null or left out
JvmInit ==
  \E java \in JavaHandles \cup {Null, Undef}, packages \in PackageMaps :
    LET j == JVM_init([jvm EXCEPT !.err = FALSE], java, packages)
    IN /\ jvm' = [j EXCEPT !.err = FALSE]
       /\ last' = [op |-> "JVM.init",
                   args |-> [java |-> java, packages |-> packages],
                   err |-> j.err, ret |-> Undef]
       /\ UNCHANGED <<heapvars, assigns>>

ApiKinds == {"sentences", "tag", "tagSentence", "analyze"}

Texts == {Str(""), Str(" "), Str("a. b")}

\* strings, a Sentence, and arrays of strings
ApiArguments ==
  SeqsUpTo(Texts \cup {SentenceOf("a")}
             \cup {List(l) : l \in SeqsUpTo(Texts \cup {SentenceOf("a")}, MaxArgs)},
           MaxArgs)

\* the result of a call as a value: the items and the texts handed over
ApiResult(r) == [List(r.items) EXCEPT !.s = "result"] @@ [calls |-> r.calls]

\* await analyzer.sentences(...text), tag, tagSentence, analyze, on the
\* arguments at hand
CallAsync ==
  /\ last.op = "arguments"
  /\ LET r == Api_async(last.args.kind, last.args.text, 1, Api_start)
     IN Commit([Heap EXCEPT !.err = r.err, !.ret = ApiResult(r)], "async",
               last.args)

\* analyzer.sentencesSync(...text), tagSync, tagSentenceSync, analyzeSync
CallSync ==
  /\ last.op = "arguments"
  /\ LET r == Api_sync(last.args.kind, last.args.text, 1, Api_start)
     IN Commit([Heap EXCEPT !.err = r.err, !.ret = ApiResult(r)], "sync",
               last.args)

\* sentence.nouns
GetNouns ==
  \E s \in 1..Len(sents) :
    Commit([Heap EXCEPT !.ret = List(Sentence_nouns(Heap, s))], "nouns", s)

\* sentence.modifiers
GetModifiers ==
  \E s \in 1..Len(sents) :
    Commit([Heap EXCEPT !.ret = List(Sentence_modifiers(Heap, s))],
           "modifiers", s)

\* container.equals(other)
Equals ==
  \E c \in 1..Len(lists),
     other \in {Undef, Null, Num(0)} \cup Refs("ImmutableArray", lists)
                \cup Refs("Array", arrays) :
    Commit(ImmutableArray_equals(Heap, c, other), "equals",
           [this |-> c, other |-> other])

\* edge.equals(other) for two edges of one class
EdgeEquals ==
  \/ \E a \in 1..Len(deps), b \in 1..Len(deps) :
       Commit(DepEdge_equals(Heap, a, b), "DepEdge.equals",
              [this |-> a, other |-> b])
  \/ \E a \in 1..Len(roles), b \in 1..Len(roles) :
       Commit(RoleEdge_equals(Heap, a, b), "RoleEdge.equals",
              [this |-> a, other |-> b])

(* Constructor calls whose arguments may be of any runtime type.           *)

\* a value of the expected class, or a number
Loose(S) == S \cup {Num(0)}

\* a list of at most one value of the expected class, a list of one value
\* of another type, or a value of the expected class followed by null
LooseItems(S) ==
  {<<>>, <<Null>>, <<Num(0)>>} \cup {<<x>> : x \in S} \cup {<<x, Null>> : x \in S}

DepValue(governor, dependent) ==
  [governor |-> governor, dependent |-> dependent, type |-> Str("NP"),
   depType |-> Undef, label |-> Undef, src |-> governor, dest |-> dependent]

AnyWord ==
  /\ Len(words) < MaxOthers
  /\ \E surface \in {Str("w"), Num(0)},
        morphemes \in LooseItems(Refs("Morpheme", morphs)) :
       Commit(Word_new(Heap, surface, morphemes), "Word",
              [surface |-> surface, morphemes |-> morphemes])

AnyEntity ==
  /\ Len(ents) < MaxOthers
  /\ \E surface \in {Str("e"), Undef}, label \in {Str("PS"), Num(0)},
        morphemes \in LooseItems(Refs("Morpheme", morphs)) :
       Commit(Entity_new(Heap, surface, label, Str("PS_NAME"), morphemes),
              "Entity", [surface |-> surface, label |-> label,
                         fineLabel |-> Str("PS_NAME"), morphemes |-> morphemes])

AnyCoreferenceGroup ==
  /\ Len(groups) < MaxOthers
  /\ \E entities \in LooseItems(Refs("Entity", ents)) :
       Commit(CoreferenceGroup_new(Heap, entities), "CoreferenceGroup",
              [entities |-> entities])

AnySyntaxTree ==
  /\ Len(trees) < MaxOthers + 1
  /\ \E label \in {Str("NP"), Null},
        terminal \in {Undef} \cup Loose(Refs("Word", words)),
        children \in {[given |-> TRUE, items |-> c] :
                        c \in LooseItems(Refs("SyntaxTree", trees))} :
       Commit(SyntaxTree_new(Heap, label, terminal, children), "SyntaxTree",
              [label |-> label, terminal |-> terminal, children |-> children])

AnyDepEdge ==
  /\ Len(deps) < MaxOthers
  /\ \E governor \in {Undef} \cup Loose(Refs("Word", words)),
        dependent \in Loose(Refs("Word", words)),
        type \in {Str("NP"), Num(0)} :
       LET value == [DepValue(governor, dependent) EXCEPT !.type = type]
       IN Commit(DepEdge_new(Heap, value), "DepEdge", value)

AnyRoleEdge ==
  /\ Len(roles) < MaxOthers
  /\ \E predicate \in Loose(Refs("Word", words)),
        argument \in Loose(Refs("Word", words)),
        label \in {Str("ARG0"), Num(0)},
        modifiers \in {<<>>, <<Null>>} :
       LET value == [predicate |-> predicate, argument |-> argument,
                     label |-> label, modifiers |-> modifiers]
       IN Commit(RoleEdge_new(Heap, value), "RoleEdge", value)

AnySentence ==
  /\ Len(sents) < MaxOthers
  /\ \E value \in LooseItems(Refs("Word", words)) :
       Commit(Sentence_new(Heap, value), "Sentence", [value |-> value])

\* morpheme.wordSense = newValue
AssignWordSense ==
  /\ assigns < MaxAssigns
  /\ \E m \in 1..Len(morphs), newValue \in {Undef, Null, Num(1), Num(2)} :
       Commit(Morpheme_setWordSense(Heap, m, newValue), "assignSense",
              [obj |-> m, newValue |-> newValue])

\* sentence.syntaxTree = newValue
AssignSyntaxTree ==
  /\ assigns < MaxAssigns
  /\ \E s \in 1..Len(sents),
        newValue \in {Undef, Null} \cup Refs("SyntaxTree", trees) :
       Commit(Sentence_setSyntaxTree(Heap, s, newValue), "assignTree",
              [obj |-> s, newValue |-> newValue])

----------------------------------------------------------------------------
(* Properties.                                                             *)

Count(seq, x) == Cardinality({k \in DOMAIN seq : seq[k] = x})

Range(seq) == {seq[k] : k \in DOMAIN seq}

\* C2 (as claimed): for a Word d without a governor edge and a governor g that
\* is a Word or absent, new DepEdge({governor: g, dependent: d, type})
\* completes, d.governorEdge is the new edge, and the new edge is an element
\* of g.dependentEdges when g is present.  (A call that throws leaves the
\* heap as it was, so it is outside the case only if d has a governor edge.)
C2_DepEdgeCompletes ==
  (/\ last.op = "DepEdge"
   /\ last.args.src = Undef /\ last.args.dest = Undef) =>
     IF last.err
     THEN isDefined(Word_governorEdge(Heap, last.args.dependent.n))
     ELSE /\ Word_governorEdge(Heap, last.args.dependent.n) = last.ret
          /\ isDefined(last.args.governor) =>
               last.ret \in Range(words[last.args.governor.n].dependentEdges)

\* C3: every constructed RoleEdge e occurs exactly once in
\* e.dest.predicateRoles and, when e.src is defined, exactly once in
\* e.src.argumentRoles.
C3_RoleEdgeRegistered ==
  \A r \in 1..Len(roles) :
    /\ Count(words[roles[r].dest.n].predicateRoles, Ref("RoleEdge", r)) = 1
    /\ isDefined(roles[r].src) =>
         Count(words[roles[r].src.n].argumentRoles, Ref("RoleEdge", r)) = 1

\* two role edges that share their argument Word and differ in the predicate
C3_Witness ==
  /\ Len(roles) = 2
  /\ roles[1].dest = roles[2].dest
  /\ roles[1].src # roles[2].src

\* C4: whatever CoreferenceGroup constructions succeeded or failed, every
\* entity of a successfully constructed group g has corefGroup = g.
C4_CorefBackReference ==
  \A g \in 1..Len(groups) :
    groups[g].ok =>
      \A k \in DOMAIN groups[g].items :
        Entity_corefGroup(Heap, groups[g].items[k].n) = Ref("CoreferenceGroup", g)

\* a group holds an entity and a later group over that entity was rejected
C4_Witness ==
  /\ last.op = "CoreferenceGroup" /\ last.err
  /\ \E g \in 1..Len(groups) : groups[g].ok /\ groups[g].items # <<>>

\* C5: in every successfully constructed Word w, the morpheme at position i
\* has id i and word w, whatever was constructed afterwards.
C5_MorphemeIds ==
  \A w \in 1..Len(words) :
    words[w].ok =>
      \A i \in DOMAIN words[w].items :
        /\ Morpheme_id(Heap, words[w].items[i].n) = Num(i - 1)
        /\ Morpheme_word(Heap, words[w].items[i].n) = Ref("Word", w)

\* a Word of two morphemes, then an Entity, a Sentence, a role edge and a
\* dependency edge, and last a rejected Word over morphemes that are taken
C5_Witness ==
  /\ \E w \in 1..Len(words) : words[w].ok /\ Len(words[w].items) = 2
  /\ ents # <<>> /\ sents # <<>> /\ roles # <<>> /\ deps # <<>>
  /\ last.op = "Word" /\ last.err

\* C6: every morpheme of an Entity has the Entity in its entities list, and
\* the Word that owns the morpheme has it exactly once in Word.entities.
C6_EntityRegistered ==
  \A e \in 1..Len(ents) :
    \A k \in DOMAIN ents[e].items :
      LET m == ents[e].items[k].n
      IN /\ Ref("Entity", e) \in Range(morphs[m].entities)
         /\ isDefined(Morpheme_word(Heap, m)) =>
              Count(Word_entities(Heap, Morpheme_word(Heap, m).n), Ref("Entity", e)) = 1

\* an Entity over two morphemes that belong to two different Words
C6_Witness ==
  \E e \in 1..Len(ents) :
    /\ Len(ents[e].items) = 2
    /\ isDefined(Morpheme_word(Heap, ents[e].items[1].n))
    /\ isDefined(Morpheme_word(Heap, ents[e].items[2].n))
    /\ Morpheme_word(Heap, ents[e].items[1].n) # Morpheme_word(Heap, ents[e].items[2].n)
    /\ words[Morpheme_word(Heap, ents[e].items[1].n).n].ok
    /\ words[Morpheme_word(Heap, ents[e].items[2].n).n].ok

\* C1: once a write-once field holds a concrete value, assigning a different
\* value raises an error, assigning the value it holds raises none, and
\* either way nothing changes.
C1_WriteOnce ==
  [][(last'.op = "assign" /\ assigns' = assigns + 1) =>
       LET old == RawField(Heap, last'.args.field, last'.args.obj)
       IN isDefined(old) =>
            /\ heapvars' = heapvars
            /\ last'.err <=> (last'.args.newValue # old)]_vars

\* a concrete value was assigned to a field that holds another concrete
\* value, and the assignment was rejected
C1_Witness ==
  /\ last.op = "assign" /\ last.err
  /\ isDefined(last.args.newValue)
  /\ isDefined(RawField(Heap, last.args.field, last.args.obj))
  /\ RawField(Heap, last.args.field, last.args.obj) # last.args.newValue

\* the arrays a Sentence property holds
Held(ss) == {ss[s][name] : s \in DOMAIN ss, name \in ListFields}

\* C13: when one of Sentence.dependencies, roles, entities and corefGroups
\* holds a non-empty list, assigning the property changes nothing and throws
\* exactly when the new value is not the held list itself; and no push, pop
\* or indexed store changes the elements of a non-empty list that a Sentence
\* holds (push and pop throw).
C13_FrozenOnceFilled ==
  [][/\ (last'.op = "assignList" /\ assigns' = assigns + 1) =>
          LET old == sents[last'.args.obj][last'.args.field]
          IN (isDefined(old) /\ Len(arrays[old.n].items) > 0) =>
               /\ heapvars' = heapvars
               /\ last'.err <=> (last'.args.newValue # old)
     /\ (last'.op = "mutate" /\ assigns' = assigns + 1) =>
          \A held \in Held(sents) :
            (isDefined(held) /\ Len(arrays[held.n].items) > 0) =>
              /\ arrays'[held.n] = arrays[held.n]
              /\ (last'.args.array = held.n /\ last'.args.method # "set") =>
                   last'.err
    ]_vars

\* a property holding a non-empty list refused another non-empty list, after
\* an earlier caller operation
C13_Witness ==
  /\ last.op = "assignList" /\ last.err /\ assigns = 2
  /\ isDefined(last.args.newValue)
  /\ Len(arrays[last.args.newValue.n].items) > 0
  /\ Len(Sentence_list(Heap, last.args.obj, last.args.field)) > 0

\* C14 (as claimed): a Sentence built in either mode has syntaxTree undefined
\* when a Word list was given, and once syntaxTree holds a SyntaxTree an
\* assignment changes nothing and throws exactly when the new value differs.
C14_SyntaxTreeWriteOnce ==
  [][/\ (last'.op = "Sentence" /\ ~last'.err) =>
          sents'[last'.ret.n].syntaxTree = Undef
     /\ (last'.op = "assignTree" /\ assigns' = assigns + 1) =>
          LET old == sents[last'.args.obj].syntaxTree
          IN isDefined(old) =>
               /\ heapvars' = heapvars
               /\ last'.err <=> (last'.args.newValue # old)
    ]_vars

\* C15 (as claimed): once Morpheme.wordSense holds a concrete value, an
\* assignment changes nothing and throws exactly when the new value differs.
C15_WordSenseWriteOnce ==
  [][(last'.op = "assignSense" /\ assigns' = assigns + 1) =>
       LET old == morphs[last'.args.obj].wordSense
       IN isDefined(old) =>
            /\ heapvars' = heapvars
            /\ last'.err <=> (last'.args.newValue # old)]_vars

\* whether the runtime type of every argument of the call is one the
\* constructor accepts
WellTyped(op, args) ==
  CASE op = "Word" ->
         /\ typeCheck(args.morphemes, {"Morpheme"})
         /\ typeCheck(<<args.surface>>, {"string"})
    [] op = "Entity" ->
         /\ typeCheck(args.morphemes, {"Morpheme"})
         /\ typeCheck(<<args.surface, args.fineLabel>>, {"string"})
         /\ typeCheck(<<args.label>>, {"string", "CoarseEntityType"})
    [] op = "CoreferenceGroup" -> typeCheck(args.entities, {"Entity"})
    [] op = "SyntaxTree" ->
         /\ typeCheck(args.children.items, {"SyntaxTree", "Tree"})
         /\ typeCheck(<<args.label>>, {"string"})
         /\ typeCheck(<<args.terminal>>, {"undefined", "Word"})
    [] op = "DepEdge" ->
         /\ typeCheck(<<args.governor>>, {"undefined", "Word"})
         /\ typeCheck(<<args.dependent>>, {"Word"})
         /\ typeCheck(<<args.type>>, {"string", "PhraseTag"})
    [] op = "RoleEdge" ->
         /\ typeCheck(<<args.predicate>>, {"Word"})
         /\ typeCheck(<<args.argument>>, {"Word"})
         /\ typeCheck(<<args.label>>, {"string", "RoleType"})
         /\ typeCheck(args.modifiers, {"Word"})
    [] op = "Sentence" -> typeCheck(args.value, {"Word"})
    [] OTHER -> TRUE

\* C16: a constructor call of Word, Entity, CoreferenceGroup, SyntaxTree,
\* DepEdge, RoleEdge or Sentence with an argument whose runtime type is not
\* accepted throws, and the Morphemes, Words, SyntaxTrees and Entities (the
\* objects that carry id, word, phrase, parent, governorEdge, corefGroup,
\* entities, dependentEdges, argumentRoles and predicateRoles) are as before.
C16_RejectedBeforeWiring ==
  [][~WellTyped(last'.op, last'.args) =>
       /\ last'.err
       /\ morphs' = morphs /\ words' = words
       /\ trees' = trees /\ ents' = ents]_vars

\* a Word whose morphemes are Morphemes was rejected for its surface
C16_Witness ==
  /\ last.op = "Word" /\ last.err
  /\ last.args.morphemes # <<>>
  /\ typeCheck(last.args.morphemes, {"Morpheme"})
  /\ ~typeCheck(<<last.args.surface>>, {"string"})

\* C17 (as claimed): every constructed Entity has at least one morpheme, a
\* call with an empty morpheme list having failed.
C17_EntityNonEmpty ==
  \A e \in 1..Len(ents) : ents[e].ok => Len(ents[e].items) >= 1

\* C18: a container constructed over an array has as many items as the
\* array had at the call, and no later step (an indexed store through the
\* container, push, pop or an indexed store on toArray() or on the array
\* passed in, map, filter, slice, further constructions) changes the
\* container or the elements it holds.
C18_ContainerImmutable ==
  [][/\ (last'.op = "ImmutableArray" /\ ~last'.err) =>
          /\ Len(lists') = Len(lists) + 1
          /\ Len(arrays'[lists'[Len(lists')].items.n].items) = Len(last'.args.items)
     /\ \A c \in 1..Len(lists) :
          /\ lists'[c] = lists[c]
          /\ arrays'[lists[c].items.n].items = arrays[lists[c].items.n].items
    ]_vars

\* push or pop on the array a non-empty container was built from was refused
C18_Witness ==
  /\ last.op = "mutate" /\ last.err
  /\ \E c \in 1..Len(lists) :
       /\ ImmutableArray_toArray(Heap, c) = Ref("Array", last.args.array)
       /\ ImmutableArray_length(Heap, c) > 0
  /\ arrays[last.args.array].by = "caller"

\* C19 (as claimed): container.equals(other) answers true exactly when
\* other is a container of the same class with the same number of items
\* that are pairwise equal in order; for a plain array and for a container
\* of another class it answers false.
C19_EqualsSameType ==
  (last.op = "equals" /\ ~last.err) =>
    (last.ret = Bool(TRUE) <=>
       /\ last.args.other.t = "ImmutableArray"
       /\ lists[last.args.other.n].cls = lists[last.args.this].cls
       /\ ImmutableArray_length(Heap, last.args.other.n)
            = ImmutableArray_length(Heap, last.args.this)
       /\ \A k \in 1..ImmutableArray_length(Heap, last.args.this) :
            Item_equals(Heap, ImmutableArray_items(Heap, last.args.this)[k],
                        ImmutableArray_items(Heap, last.args.other.n)[k]))

\* C20 (as claimed): container.lastIndexOf(value) is the greatest 0-based
\* index of an item identical to value, or -1 when there is none.
C20_LastIndexOf ==
  last.op = "lastIndexOf" =>
    LET items == ImmutableArray_items(Heap, last.args.this)
        at == {k \in DOMAIN items : items[k] = last.args.value}
    IN /\ ~last.err
       /\ last.ret = IF at = {} THEN Num(-1)
                     ELSE Num((CHOOSE k \in at : \A j \in at : j <= k) - 1)

\* C21 (as claimed): a Word is in sentence.nouns exactly when, among its
\* morphemes with a noun tag, ETN, XSN, XSV, XSA or XSM, the one at the
\* greatest index has a noun tag, ETN or XSN.
C21_NounsLastDecides ==
  last.op = "nouns" =>
    \A k \in DOMAIN sents[last.args].items :
      LET word == sents[last.args].items[k]
          tags == Word_tags(Heap, word.n)
          include == NounTags \cup {"ETN", "XSN"}
          relevant == {i \in DOMAIN tags :
                         tags[i] \in include \cup {"XSV", "XSA", "XSM"}}
      IN (word \in Range(last.ret.items)) <=>
           /\ relevant # {}
           /\ tags[CHOOSE i \in relevant : \A j \in relevant : j <= i] \in include

\* C22 (as claimed): a Word with a morpheme of a modifier tag and no ETN,
\* XSN or XSV morpheme is in sentence.modifiers.
C22_ModifierWords ==
  last.op = "modifiers" =>
    \A k \in DOMAIN sents[last.args].items :
      LET word == sents[last.args].items[k]
          tags == Word_tags(Heap, word.n)
      IN (/\ \E i \in DOMAIN tags : tags[i] \in ModifierTags
          /\ \A i \in DOMAIN tags : tags[i] \notin {"ETN", "XSN", "XSV"}) =>
           word \in Range(last.ret.items)

\* C23: for the same analyzer and the same arguments, the awaitable call
\* fails exactly when the blocking call fails, and otherwise both return
\* the same items in the same order.
C23_SyncAsyncAgree ==
  /\ last.op = "async" =>
       LET r == Api_sync(last.args.kind, last.args.text, 1, Api_start)
       IN /\ last.err = r.err
          /\ ~last.err => last.ret.items = r.items
  /\ last.op = "sync" =>
       LET r == Api_async(last.args.kind, last.args.text, 1, Api_start)
       IN /\ last.err = r.err
          /\ ~last.err => last.ret.items = r.items

\* an awaitable call with a text after a nested array returned three items
C23_Witness ==
  /\ last.op = "async" /\ ~last.err
  /\ Len(last.args.text) = 2 /\ last.args.text[1].t = "Array"
  /\ last.args.text[2].t = "string"
  /\ Len(last.ret.items) = 3

RECURSIVE OnlyBlank(_)
\* whether every string of the arguments is empty or blank, and there is
\* nothing but strings and arrays
OnlyBlank(text) ==
  \A i \in DOMAIN text :
    \/ text[i].t = "string" /\ text[i].s \in {"", " "}
    \/ text[i].t = "Array" /\ OnlyBlank(text[i].items)

\* C24: a blocking or awaitable call whose arguments hold only empty or
\* blank strings returns an empty list, does not fail and hands nothing to
\* the analyzer.
C24_BlankInput ==
  (last.op \in {"async", "sync"} /\ OnlyBlank(last.args.text)) =>
    /\ ~last.err
    /\ last.ret.items = <<>>
    /\ last.ret.calls = <<>>

\* a blocking call with a blank string inside a nested array
C24_Witness ==
  /\ last.op = "sync" /\ ~last.err
  /\ OnlyBlank(last.args.text)
  /\ Len(last.args.text) = 2 /\ last.args.text[1].t = "Array"
  /\ last.args.text[1].items = <<Str(" "), Str("")>>

\* C25: JVM.init takes effect at most once: a call with a null or absent
\* java handle throws and changes nothing, and once a call has stored a
\* handle every later call throws and leaves the stored handle and the
\* package map unchanged.
C25_InitOnce ==
  [][last'.op = "JVM.init" =>
       /\ last'.args.java \in {Null, Undef} => (last'.err /\ jvm' = jvm)
       /\ jvm.java \in JavaHandles => (last'.err /\ jvm' = jvm)]_vars

\* C26: equals of two DepEdges or two RoleEdges never throws; two edges
\* without src, with the same label and type and equal dest, are equal; two
\* edges of which exactly one has no src are unequal.
C26_EdgeEqualsTotal ==
  last.op \in {"DepEdge.equals", "RoleEdge.equals"} =>
    LET pool == IF last.op = "DepEdge.equals" THEN deps ELSE roles
        this == pool[last.args.this]
        other == pool[last.args.other]
    IN /\ ~last.err
       /\ (/\ this.src = Undef /\ other.src = Undef
           /\ this.label = other.label
           /\ last.op = "DepEdge.equals" => this.type = other.type
           /\ Word_equals(Heap, this.dest.n, other.dest))
            => last.ret = Bool(TRUE)
       /\ (this.src = Undef) # (other.src = Undef) => last.ret = Bool(FALSE)

\* C27: a Word belongs to at most one Sentence: a Sentence constructor
\* given a Word that is an element of an earlier Sentence fails, whatever
\* the positions of the Word.
C27_OneSentencePerWord ==
  (last.op = "Sentence" /\ ~last.err) =>
    \A s \in 1..(Len(sents) - 1) :
      Range(sents[s].items) \cap Range(last.args.value) = {}

\* C28: after a reconstruction from a native result with entities and
\* coreference groups, every Entity in the entities list of a morpheme of the
\* Sentence is an element of sentence.entities.
C28_MorphemeEntitiesListed ==
  (/\ last.op = "recon" /\ ~last.err
   /\ last.args.ents # <<>> /\ last.args.corefs # <<>>) =>
    \A w \in Range(sents[last.ret.n].items) :
      \A m \in Range(words[w.n].items) :
        Range(morphs[m.n].entities)
          \subseteq Range(Sentence_list(Heap, last.ret.n, "entities"))

\* the Morpheme of Sentence s at the native position (word id, morpheme id)
MorphemeAt(s, at) == words[sents[s].items[at.w + 1].n].items[at.m + 1]

\* whether (word id, morpheme id) is a position of Sentence s
IsPosition(s, at) ==
  /\ at.w \in 0..(Len(sents[s].items) - 1)
  /\ at.m \in 0..(Len(words[sents[s].items[at.w + 1].n].items) - 1)

\* C29: in a reconstructed Sentence the k-th member of each coreference
\* group is the element of sentence.entities whose morphemes are at the
\* positions of the k-th native entry of the group, for every entry that
\* names positions of the Sentence at which the native result has an entity.
C29_CorefMembersByPosition ==
  (last.op = "recon" /\ ~last.err /\ last.args.corefs # <<>>) =>
    LET s == last.ret.n
        corefGroups == Sentence_list(Heap, s, "corefGroups")
    IN \A g \in DOMAIN last.args.corefs :
         \A k \in DOMAIN last.args.corefs[g] :
           LET member == groups[corefGroups[g].n].items[k]
               at == last.args.corefs[g][k].morphemes
           IN (/\ \A i \in DOMAIN at : IsPosition(s, at[i])
               /\ \E e \in DOMAIN last.args.ents :
                    last.args.ents[e].morphemes = at) =>
                /\ member \in Range(Sentence_list(Heap, s, "entities"))
                /\ ents[member.n].items = [i \in DOMAIN at |-> MorphemeAt(s, at[i])]

\* C30: a constructor of CoreferenceGroup, SyntaxTree, Word or Sentence that
\* throws has changed no back-reference: every corefGroup, parent, phrase,
\* word and id is what it was before the call.
C30_FailedConstructorAtomic ==
  [][(/\ last'.op \in {"CoreferenceGroup", "SyntaxTree", "Word", "Sentence"}
      /\ last'.err) =>
       /\ \A m \in DOMAIN morphs :
            morphs'[m].word = morphs[m].word /\ morphs'[m].id = morphs[m].id
       /\ \A w \in DOMAIN words :
            words'[w].phrase = words[w].phrase /\ words'[w].id = words[w].id
       /\ \A t \in DOMAIN trees : trees'[t].parent = trees[t].parent
       /\ \A e \in DOMAIN ents : ents'[e].corefGroup = ents[e].corefGroup]_vars

\* C7 (as claimed): a SyntaxTree built from a label, an optional terminal
\* Word without phrase and an optional list of parentless children completes;
\* afterwards terminal.phrase and every child's parent are the new node, and
\* a node with a terminal and no children has length 0 and no non-terminals.
C7_SyntaxTreeCompletes ==
  [][(/\ last'.op = "SyntaxTree"
      /\ last'.args.terminal # Undef =>
           ~isDefined(Word_phrase(Heap, last'.args.terminal.n))
      /\ \A k \in DOMAIN last'.args.children.items :
           ~isDefined(Tree_parent(Heap, last'.args.children.items[k].n))) =>
       /\ ~last'.err
       /\ last'.args.terminal # Undef =>
            words'[last'.args.terminal.n].phrase = last'.ret
       /\ \A k \in DOMAIN last'.args.children.items :
            trees'[last'.args.children.items[k].n].parent = last'.ret
       /\ (last'.args.terminal # Undef /\ last'.args.children.items = <<>>) =>
            (Tree_length(Heap, last.ret.n) = 0 /\ ~Tree_hasNonTerminals(Heap, last.ret.n))']_vars

RECURSIVE Reach(_)
\* the nodes reachable from t through children, t included
Reach(t) == {t} \cup UNION {Reach(trees[t].items[k].n) : k \in DOMAIN trees[t].items}

RECURSIVE SumOver(_, _)
SumOver(f, S) ==
  IF S = {} THEN 0
  ELSE LET x == CHOOSE y \in S : TRUE IN f[x] + SumOver(f, S \ {x})

RECURSIVE TermPaths(_)
\* the terminal-bearing nodes below t, counted once per path from t
TermPaths(t) ==
  (IF trees[t].terminal # Undef THEN 1 ELSE 0) +
  SumOver([k \in DOMAIN trees[t].items |-> TermPaths(trees[t].items[k].n)],
          DOMAIN trees[t].items)

TermNodes(t) == {n \in Reach(t) : trees[n].terminal # Undef}

Ascending(ts, strict) ==
  \A i, j \in DOMAIN ts :
    i < j => IF strict THEN Word_id(Heap, ts[i].n).n < Word_id(Heap, ts[j].n).n
             ELSE Word_id(Heap, ts[i].n).n <= Word_id(Heap, ts[j].n).n

JResolves(value, jword) == jword.n \in 0..(Len(value.words) - 1)

JMorphResolves(value, jmorph) ==
  /\ jmorph.w \in 0..(Len(value.words) - 1)
  /\ jmorph.m \in 0..(Len(value.words[jmorph.w + 1]) - 1)

JEntityResolves(value, jent) ==
  \A k \in DOMAIN jent.morphemes : JMorphResolves(value, jent.morphemes[k])

\* two native entities that resolve are equal by value
JEntityEquals(value, a, b) ==
  /\ a.label = b.label /\ a.fineLabel = b.fineLabel
  /\ Len(a.morphemes) = Len(b.morphemes)
  /\ \A k \in DOMAIN a.morphemes :
       value.words[a.morphemes[k].w + 1][a.morphemes[k].m + 1] =
       value.words[b.morphemes[k].w + 1][b.morphemes[k].m + 1]

RECURSIVE Rebuilt(_, _, _, _)
\* SyntaxTree t is native node `node` rebuilt over the Words `items`
Rebuilt(items, jtree, node, t) ==
  /\ IF isDefined(jtree[node].terminal)
     THEN /\ trees[t].terminal = items[jtree[node].terminal.n + 1]
          /\ words[trees[t].terminal.n].phrase = Ref("SyntaxTree", t)
     ELSE trees[t].terminal = Undef
  /\ Len(trees[t].items) = Len(jtree[node].kids)
  /\ \A k \in DOMAIN jtree[node].kids :
       /\ trees[trees[t].items[k].n].parent = Ref("SyntaxTree", t)
       /\ Rebuilt(items, jtree, jtree[node].kids[k], trees[t].items[k].n)

\* C9 (as claimed): reconstructing a Sentence from a native result with a
\* phrase tree whose terminals are distinct positions of the sentence
\* completes, every rebuilt node has the terminal its native node names, that
\* Word's phrase is the node, and every child's parent is the node rebuilt
\* from its native parent.
C9_ReconTree ==
  (/\ last.op = "recon"
   /\ last.args.tree # <<>>
   /\ \A n \in DOMAIN last.args.tree :
        isDefined(last.args.tree[n].terminal) =>
          /\ JResolves(last.args, last.args.tree[n].terminal)
          /\ \A m \in DOMAIN last.args.tree :
               m # n => last.args.tree[m].terminal # last.args.tree[n].terminal) =>
    /\ ~last.err
    /\ isDefined(sents[last.ret.n].syntaxTree)
    /\ Rebuilt(sents[last.ret.n].items, last.args.tree, 1,
               sents[last.ret.n].syntaxTree.n)

\* some lookup of the native result does not resolve
Unresolved(value) ==
  \/ \E n \in DOMAIN value.tree :
       isDefined(value.tree[n].terminal) /\ ~JResolves(value, value.tree[n].terminal)
  \/ \E k \in DOMAIN value.deps :
       \/ isDefined(value.deps[k].governor) /\ ~JResolves(value, value.deps[k].governor)
       \/ isDefined(value.deps[k].dependent) /\ ~JResolves(value, value.deps[k].dependent)
  \/ \E k \in DOMAIN value.roles :
       \/ isDefined(value.roles[k].predicate) /\ ~JResolves(value, value.roles[k].predicate)
       \/ isDefined(value.roles[k].argument) /\ ~JResolves(value, value.roles[k].argument)
       \/ \E m \in DOMAIN value.roles[k].modifiers :
            ~JResolves(value, value.roles[k].modifiers[m])
  \/ \E k \in DOMAIN value.ents : ~JEntityResolves(value, value.ents[k])
  \/ \E g \in DOMAIN value.corefs : \E k \in DOMAIN value.corefs[g] :
       \/ ~JEntityResolves(value, value.corefs[g][k])
       \/ ~\E e \in DOMAIN value.ents :
             /\ JEntityResolves(value, value.ents[e])
             /\ JEntityEquals(value, value.ents[e], value.corefs[g][k])

\* C10 (as claimed): a reconstruction with a lookup that does not resolve
\* throws.
C10_UnresolvedThrows ==
  (last.op = "recon" /\ Unresolved(last.args)) => last.err

\* C11: reconstructing a Sentence from a native result without a syntax
\* tree and with every annotation list absent or empty completes: syntaxTree
\* is undefined, the four collections are empty, and no Word has a governor
\* edge, a phrase, an edge or role list entry, or an entity.
C11_BareRecon ==
  (/\ last.op = "recon"
   /\ last.args.tree = <<>>
   /\ \A name \in NativeLists : last.args[name] = <<>>) =>
    /\ ~last.err
    /\ sents[last.ret.n].syntaxTree = Undef
    /\ \A name \in {"dependencies", "roles", "entities", "corefGroups"} :
         Sentence_list(Heap, last.ret.n, name) = <<>>
    /\ Len(sents[last.ret.n].items) = Len(last.args.words)
    /\ \A k \in DOMAIN sents[last.ret.n].items :
         LET w == sents[last.ret.n].items[k].n
         IN /\ Word_governorEdge(Heap, w) = Undef /\ Word_phrase(Heap, w) = Undef
            /\ words[w].dependentEdges = <<>> /\ words[w].argumentRoles = <<>>
            /\ words[w].predicateRoles = <<>> /\ Word_entities(Heap, w) = <<>>

\* a Sentence of two Words rebuilt from a native result that has none of the
\* four lists
C11_Witness ==
  /\ last.op = "recon" /\ ~last.err
  /\ last.args.tree = <<>> /\ last.args.absent = NativeLists
  /\ Len(sents[last.ret.n].items) = 2

\* C12 (as claimed): a RoleEdge with an argument Word and no predicate is
\* constructed, has src undefined, is on argument.predicateRoles and on no
\* argumentRoles list; a RoleEdge without an argument is rejected.
C12_PredicateOptional ==
  last.op = "RoleEdge" =>
    /\ (~isDefined(last.args.predicate) /\ isDefined(last.args.argument)) =>
         /\ ~last.err
         /\ roles[last.ret.n].src = Undef
         /\ last.ret \in Range(words[last.args.argument.n].predicateRoles)
         /\ \A w \in 1..Len(words) : last.ret \notin Range(words[w].argumentRoles)
    /\ ~isDefined(last.args.argument) => last.err

----------------------------------------------------------------------------
(* Specifications.                                                         *)

\* Assignments start from a graph built by the constructors: one morpheme,
\* two Words, two SyntaxTrees, an Entity and two CoreferenceGroups, either
\* with no back-reference set or wired together with two DepEdges and a
\* Sentence.
EmptyHeap ==
  [morphs |-> <<>>, words |-> <<>>, trees |-> <<>>, deps |-> <<>>,
   roles |-> <<>>, ents |-> <<>>, groups |-> <<>>, sents |-> <<>>,
   arrays |-> <<>>, lists |-> <<>>, err |-> FALSE, ret |-> Undef]

AssignHeap(wired) ==
  LET h1 == Morpheme_new(EmptyHeap, Str("a"), Str("NNG"))
      h2 == Word_new(h1, Str("w"), IF wired THEN <<Ref("Morpheme", 1)>> ELSE <<>>)
      h3 == Word_new(h2, Str("w"), <<>>)
      h4 == SyntaxTree_new(h3, Str("NP"), IF wired THEN Ref("Word", 1) ELSE Undef,
                           [given |-> TRUE, items |-> <<>>])
      h5 == SyntaxTree_new(h4, Str("NP"), Undef,
                           [given |-> TRUE,
                            items |-> IF wired THEN <<Ref("SyntaxTree", 1)>> ELSE <<>>])
      h6 == Entity_new(h5, Str("e"), Str("PS"), Str("PS_NAME"), <<>>)
      h7 == CoreferenceGroup_new(h6, IF wired THEN <<Ref("Entity", 1)>> ELSE <<>>)
      h8 == CoreferenceGroup_new(h7, <<>>)
      h9 == DepEdge_new(h8, DepValue(Undef, Ref("Word", 1)))
      h10 == DepEdge_new(h9, DepValue(Ref("Word", 1), Ref("Word", 2)))
      h11 == Sentence_new(h10, <<Ref("Word", 1)>>)
  IN IF wired THEN h11 ELSE h8

InitAssign ==
  /\ \E wired \in BOOLEAN :
       LET h == AssignHeap(wired)
       IN /\ morphs = h.morphs /\ words = h.words /\ trees = h.trees
          /\ deps = h.deps /\ roles = h.roles /\ ents = h.ents
          /\ groups = h.groups /\ sents = h.sents /\ arrays = h.arrays
          /\ lists = h.lists
  /\ last = [op |-> "init", args |-> <<>>, err |-> FALSE, ret |-> Undef]
  /\ assigns = 0
  /\ jvm = JVM_new

NextAssign == Assign

SpecAssign == InitAssign /\ [][NextAssign]_vars

OtherArray(S) ==
  /\ Cardinality({a \in DOMAIN arrays : arrays[a].by = "caller"}) < MaxOthers
  /\ NewArray(S)

OtherMorpheme == Len(morphs) < MaxOthers /\ NewMorpheme(OneSurface, OneTag)

\* The constructions that may follow a Word's: more Words, Sentences, and a
\* bounded number of Entities, role edges and dependency edges.
OtherEntity == Len(ents) < MaxOthers /\ NewEntity

OtherRoleEdge == Len(roles) < MaxOthers /\ NewRoleEdge

OtherDepEdge == Len(deps) < MaxOthers /\ NewDepEdge

NextMorph ==
  \/ NewMorpheme(OneSurface, OneTag)
  \/ NewWord
  \/ NewSentence
  \/ OtherEntity
  \/ OtherRoleEdge
  \/ OtherDepEdge

SpecMorph == Init /\ [][NextMorph]_vars

NextWords ==
  \/ NewMorpheme(OneSurface, OneTag)
  \/ NewWord
  \/ NewEntity
  \/ NewSentence

SpecWords == Init /\ [][NextWords]_vars

NextCoref ==
  \/ NewMorpheme(OneSurface, OneTag)
  \/ NewEntity
  \/ NewCoreferenceGroup

SpecCoref == Init /\ [][NextCoref]_vars

NextEdges ==
  \/ NewWord
  \/ NewDepEdge
  \/ NewRoleEdge

SpecEdges == Init /\ [][NextEdges]_vars

NextEdgeEquals ==
  \/ NewWord
  \/ NewDepEdge
  \/ NewRoleEdge
  \/ EdgeEquals

SpecEdgeEquals == Init /\ [][NextEdgeEquals]_vars

NextSentences ==
  \/ OtherMorpheme
  \/ NewWord
  \/ AnotherSentence

SpecSentences == Init /\ [][NextSentences]_vars

\* Objects some of which already hold a back-reference: either two
\* Morphemes, a Word of the second, and a SyntaxTree with one child; or two
\* Words, a Sentence of the first, two Entities and a CoreferenceGroup of
\* the first.
CtorHeap(withWord) ==
  LET leaf == [given |-> TRUE, items |-> <<>>]
      h1 == Morpheme_new(EmptyHeap, Str("a"), Str("NNG"))
      h2 == Morpheme_new(h1, Str("a"), Str("NNG"))
      h3 == Word_new(h2, Str("w"), <<Ref("Morpheme", 2)>>)
      h4 == SyntaxTree_new(h3, Str("NP"), Undef, leaf)
      h5 == SyntaxTree_new(h4, Str("NP"), Undef,
                           [given |-> TRUE, items |-> <<Ref("SyntaxTree", 1)>>])
      g1 == Word_new(EmptyHeap, Str("w"), <<>>)
      g2 == Word_new(g1, Str("w"), <<>>)
      g3 == Sentence_new(g2, <<Ref("Word", 1)>>)
      g4 == Entity_new(g3, Str("e"), Str("PS"), Str("PS_NAME"), <<>>)
      g5 == Entity_new(g4, Str("e"), Str("PS"), Str("PS_NAME"), <<>>)
      g6 == CoreferenceGroup_new(g5, <<Ref("Entity", 1)>>)
  IN IF withWord THEN h5 ELSE g6

InitCtor ==
  /\ \E withWord \in BOOLEAN :
       LET h == CtorHeap(withWord)
       IN /\ morphs = h.morphs /\ words = h.words /\ trees = h.trees
          /\ deps = h.deps /\ roles = h.roles /\ ents = h.ents
          /\ groups = h.groups /\ sents = h.sents /\ arrays = h.arrays
          /\ lists = h.lists
  /\ last = [op |-> "init", args |-> <<>>, err |-> FALSE, ret |-> Undef]
  /\ assigns = 0
  /\ jvm = JVM_new

\* new SyntaxTree({label: 'NP', terminal, children}) with at most one child
CtorSyntaxTree ==
  /\ NewSyntaxTree
  /\ last'.args.label = Str("NP") /\ Len(last'.args.children.items) <= 1

NextCtor ==
  \/ NewWord
  \/ NewCoreferenceGroup
  \/ CtorSyntaxTree
  \/ AnotherSentence

SpecCtor == InitCtor /\ [][NextCtor]_vars

NextTree ==
  \/ NewWord
  \/ NewSentence
  \/ NewSyntaxTree

SpecTree == Init /\ [][NextTree]_vars

NextRecon == Reconstruct

\* reconstruction of a one-word result without tree and edges
ListsReconstruct ==
  /\ Reconstruct
  /\ last'.args.tree = <<>> /\ Len(last'.args.words) = 1
  /\ last'.args.deps = <<>> /\ last'.args.roles = <<>>
  /\ last'.args.absent = {}

Elements == Refs("Morpheme", morphs) \cup Refs("Entity", ents)

NextContainer ==
  \/ OtherMorpheme
  \/ OtherEntity
  \/ OtherArray(Elements)
  \/ NewImmutableArray
  \/ SetIndex
  \/ CopyItems(Elements)
  \/ MutateArray(Elements)

SpecContainer == Init /\ [][NextContainer]_vars

TwoSurfaces == {Str("a"), Str("b")}

NextEquals ==
  \/ NewMorpheme(TwoSurfaces, OneTag)
  \/ NewArray(Refs("Morpheme", morphs))
  \/ NewImmutableArray
  \/ Equals

SpecEquals == Init /\ [][NextEquals]_vars

Tags == {"NNG", "VV", "MAG", "ETN", "ETM", "XSN", "XSV", "XSA", "XSM", "JX"}

RECURSIVE TaggedMorphemes(_, _, _)
\* the Morphemes new Morpheme({surface: 'a', tag}) for the tags from i on
TaggedMorphemes(h, tags, i) ==
  IF i > Len(tags) THEN h
  ELSE TaggedMorphemes(Morpheme_new(h, Str("a"), Str(tags[i])), tags, i + 1)

\* a Sentence of one Word whose morphemes carry the given tags
TaggedHeap(tags) ==
  LET h1 == TaggedMorphemes(EmptyHeap, tags, 1)
      h2 == Word_new(h1, Str("w"), [k \in DOMAIN tags |-> Ref("Morpheme", k)])
  IN Sentence_new(h2, <<Ref("Word", 1)>>)

InitTagged ==
  /\ \E tags \in SeqsUpTo(Tags, MaxTags) :
       LET h == TaggedHeap(tags)
       IN /\ morphs = h.morphs /\ words = h.words /\ trees = h.trees
          /\ deps = h.deps /\ roles = h.roles /\ ents = h.ents
          /\ groups = h.groups /\ sents = h.sents /\ arrays = h.arrays
          /\ lists = h.lists
  /\ last = [op |-> "init", args |-> <<>>, err |-> FALSE, ret |-> Undef]
  /\ assigns = 0
  /\ jvm = JVM_new

NextTagged ==
  \/ GetNouns
  \/ GetModifiers

SpecTagged == InitTagged /\ [][NextTagged]_vars

\* an analyzer and the arguments of one call
InitApi ==
  /\ morphs = <<>> /\ words = <<>> /\ trees = <<>> /\ deps = <<>>
  /\ roles = <<>> /\ ents = <<>> /\ groups = <<>> /\ sents = <<>>
  /\ arrays = <<>> /\ lists = <<>>
  /\ \E kind \in ApiKinds, text \in ApiArguments :
       last = [op |-> "arguments", args |-> [kind |-> kind, text |-> text],
               err |-> FALSE, ret |-> Undef]
  /\ assigns = 0
  /\ jvm = JVM_new

NextJvm == JvmInit

SpecJvm == Init /\ [][NextJvm]_vars

NextApi ==
  \/ CallAsync
  \/ CallSync

SpecApi == InitApi /\ [][NextApi]_vars

NextIndex ==
  \/ NewMorpheme(OneSurface, OneTag)
  \/ OtherArray(Refs("Morpheme", morphs))
  \/ NewImmutableArray
  \/ IndexOf
  \/ LastIndexOf

SpecIndex == Init /\ [][NextIndex]_vars

NextTypes ==
  \/ OtherMorpheme
  \/ AnyWord
  \/ AnyEntity
  \/ AnyCoreferenceGroup
  \/ AnySyntaxTree
  \/ AnyDepEdge
  \/ AnyRoleEdge
  \/ AnySentence

SpecTypes == Init /\ [][NextTypes]_vars

NextSense ==
  \/ NewMorpheme(OneSurface, OneTag)
  \/ NewNativeMorpheme
  \/ AssignWordSense

SpecSense == Init /\ [][NextSense]_vars

\* reconstruction of a result without edges, entities and groups
TreeReconstruct ==
  /\ Reconstruct
  /\ \A name \in NativeLists : last'.args[name] = <<>>
  /\ last'.args.absent = {}

NextSentenceTree ==
  \/ NewSyntaxTree
  \/ NewSentence
  \/ TreeReconstruct
  \/ AssignSyntaxTree

SpecSentenceTree == Init /\ [][NextSentenceTree]_vars

NextLists ==
  \/ OtherEntity
  \/ NewSentence
  \/ ListsReconstruct
  \/ OtherArray(Refs("Entity", ents))
  \/ AssignList
  \/ MutateArray(Refs("Entity", ents))

SpecLists == Init /\ [][NextLists]_vars

SpecRecon == Init /\ [][NextRecon]_vars

====
